---- MODULE Spec2Model ----
(***************************************************************************)
(* A model of the p6-craps simulator: the point-cycle engine               *)
(* (p6_craps/engine.py), the Game orchestrator with its stop conditions    *)
(* (p6_craps/game.py, driven by the loop of p6_craps/simulate.py) and the  *)
(* Simulation orchestrator with its bet ledger (p6_craps/sim.py).          *)
(*                                                                         *)
(* Optional values (Python's None) are sequences of length 0 or 1:         *)
(* <<>> is None and <<x>> is the value x.                                  *)
(***************************************************************************)
EXTENDS Integers, Sequences, FiniteSets, TLC

VARIABLES
    phase,              \* CrapsEngine.phase
    point,              \* CrapsEngine.point (optional)
    completed_points,   \* CrapsEngine.completed_points
    result,             \* the PointCycleResult returned by the last apply_roll (optional)
    \* ---- Game (game.py) and the loop of run_until_complete (simulate.py)
    player_states,      \* Game._player_states: seat -> optional PlayerState
    config,             \* Game._config: GameConfig
    roll_count,         \* Game.roll_count
    shooter_index,      \* Game.shooter_index
    stop_reason,        \* GameStep.stop_reason of the last step (optional)
    trackers,           \* run_until_complete's trackers: seat -> optional BettingTracker
    stats,              \* run_until_complete's TableStatsCollector
    gpc,                \* position of run_until_complete
    \* ---- Simulation (sim.py)
    cfg,                \* Simulation._cfg.simulation and the max_rolls argument of run
    players,            \* Simulation.players: sequence of PlayerState (players.py)
    current_shooter_index,  \* Simulation._current_shooter_index
    roll_index,         \* Simulation._roll_index
    shooter_roll_index, \* Simulation._shooter_roll_index
    bets,               \* Simulation.table.bets: the active bets of the ledger
    resolved_bets,      \* the bets resolved by the last roll of run
    event,              \* the last SimulationEvent appended by run (optional)
    sim_stop_reason,    \* run's stop_reason (optional)
    spc,                \* position of Simulation.run
    frames,             \* the stages run has delivered to its frame callback
    \* ---- components exercised on their own
    twin,               \* a second CrapsEngine: phase, point, completed_points, result (optional)
    call,               \* the arguments of a function called on its own (optional)
    ret,                \* what that call returned (optional)
    \* ---- a TableStatsCollector called on its own (stats.py)
    heap,               \* the StatsCounters objects ever created: object k is heap[k]
    collector,          \* the collector's fields, counters held by reference (optional)
    snap,               \* the last StatsSnapshot returned by snapshot() (optional)
    calls               \* number of calls made on the collector

engineVars == <<phase, point, completed_points, result>>
gameVars == <<player_states, config, roll_count, shooter_index, stop_reason,
              trackers, stats, gpc>>
simVars == <<cfg, players, current_shooter_index, roll_index,
             shooter_roll_index, bets, resolved_bets, event, sim_stop_reason, spc,
             frames>>
statsVars == <<heap, collector, snap, calls>>
sideVars == <<twin, call, ret, statsVars>>
vars == <<engineVars, gameVars, simVars, sideVars>>

(***************************************************************************)
(* Bounds of the model.                                                    *)
(***************************************************************************)
\* apply_roll is not applied any more once this many point cycles completed
MaxPoints == 3
\* at most this many players are seated by Game.from_players
MaxPlayers == 2
\* a game is not stepped beyond this many rolls; max_rolls is None or 1..MaxRolls
MaxRolls == 3
\* a bet decision applied on its own asks for -1..MaxStake of a bankroll 0..MaxStake
MaxStake == 6
\* a Roll constructed on its own is given faces 0..MaxFace
MaxFace == 7

(***************************************************************************)
(* Enumerations: values are the enum values of the source.                 *)
(***************************************************************************)
COME_OUT == "come_out"
POINT_ON == "point_on"

NONE == "none"
WIN == "win"
LOSS == "loss"
\* PassLineOutcome.PUSH of p6_craps/enums.py, the value the tests compare with
PUSH == "push"

None == <<>>
Some(x) == <<x>>

(***************************************************************************)
(* Dice: two faces in 1..6.                                                *)
(***************************************************************************)
Faces == 1..6
Rolls == [d1 : Faces, d2 : Faces]

Total(roll) == roll.d1 + roll.d2

(***************************************************************************)
(* CrapsEngine.apply_roll                                                  *)
(***************************************************************************)
IsNaturalSevenOnly(total) == total = 7

\* Roll.is_natural: a come-out roll that wins the pass line
IsNatural(total) == total \in {7, 11}

\* Roll.is_craps: a come-out roll that loses the pass line
IsCraps(total) == total \in {2, 3, 12}

\* the totals that establish a point on the come-out roll
EstablishesPoint(total) == total \in {4, 5, 6, 8, 9, 10}

ResetKeepsPoint(ph, pt) == [phase |-> COME_OUT, point |-> pt]

\* _reset_to_come_out: from any (phase, point) to come-out with no point
ResetToComeOut(ph, pt) == [phase |-> COME_OUT, point |-> None]

CompletedPointsAfterTwice(cp, completed_point) ==
    IF completed_point THEN cp + 2 ELSE cp

\* completed_points after a roll whose completed_point flag is given
CompletedPointsAfter(cp, completed_point) ==
    IF completed_point THEN cp + 1 ELSE cp

PointCycleResult(roll, pb, pa, ptb, pta, outcome, completed) ==
    [roll |-> roll, phase_before |-> pb, phase_after |-> pa,
     point_before |-> ptb, point_after |-> pta,
     pass_line_outcome |-> outcome, completed_point |-> completed]

ApplyRollResultByLastResult(ph, pt, roll) ==
    PointCycleResult(roll, ph, ph, pt, pt, IF result = None THEN WIN ELSE LOSS, FALSE)

\* the transition apply_roll returns from engine state (ph, pt) on roll;
\* its phase_after and point_after are the engine's new phase and point
ApplyRollResult(ph, pt, roll) ==
    LET total == Total(roll) IN
    IF ph = COME_OUT
    THEN IF IsNatural(total)
         THEN PointCycleResult(roll, ph, ph, pt, pt, WIN, FALSE)
         ELSE IF IsCraps(total)
         THEN PointCycleResult(roll, ph, ph, pt, pt, LOSS, FALSE)
         ELSE IF EstablishesPoint(total)
         THEN PointCycleResult(roll, ph, POINT_ON, pt, Some(total), NONE, FALSE)
         ELSE PointCycleResult(roll, ph, ph, pt, pt, NONE, FALSE)
    ELSE IF total = pt[1]
         THEN LET r == ResetToComeOut(ph, pt)
              IN  PointCycleResult(roll, ph, r.phase, pt, r.point, WIN, TRUE)
         ELSE IF total = 7
         THEN LET r == ResetToComeOut(ph, pt)
              IN  PointCycleResult(roll, ph, r.phase, pt, r.point, LOSS, TRUE)
         ELSE PointCycleResult(roll, ph, ph, pt, pt, NONE, FALSE)

\* no Game exists: the engine is used on its own
GameOff ==
    /\ player_states = <<>>
    /\ config = <<>>
    /\ roll_count = 0
    /\ shooter_index = 0
    /\ stop_reason = None
    /\ trackers = <<>>
    /\ stats = <<>>
    /\ gpc = "off"

\* no Simulation exists
SimOff ==
    /\ cfg = <<>>
    /\ players = <<>>
    /\ current_shooter_index = 0
    /\ roll_index = 0
    /\ shooter_roll_index = 0
    /\ bets = <<>>
    /\ resolved_bets = <<>>
    /\ event = None
    /\ sim_stop_reason = None
    /\ spc = "off"
    /\ frames = <<>>

\* no second engine, no function called on its own and no collector used on
\* its own
SideOff ==
    /\ twin = None
    /\ call = None
    /\ ret = None
    /\ heap = <<>>
    /\ collector = None
    /\ snap = None
    /\ calls = 0

\* CrapsEngine.__init__
EngineInit ==
    /\ phase = COME_OUT
    /\ point = None
    /\ completed_points = 0
    /\ result = None

\* CrapsEngine.apply_roll(roll); in POINT_ON the source asserts a point is set
apply_roll(roll) ==
    /\ phase = POINT_ON => point # None
    /\ LET r == ApplyRollResult(phase, point, roll) IN
        /\ phase' = r.phase_after
        /\ point' = r.point_after
        /\ completed_points' = CompletedPointsAfter(completed_points, r.completed_point)
        /\ result' = Some(r)

\* CrapsEngine.roll: two faces drawn by the random source, then apply_roll
EngineRoll ==
    /\ completed_points < MaxPoints
    /\ \E roll \in Rolls : apply_roll(roll)

EngineNext == EngineRoll /\ UNCHANGED <<gameVars, simVars, sideVars>>

\* a CrapsEngine on its own: no Game and no Simulation around it
EngineAlone ==
    /\ EngineInit
    /\ GameOff
    /\ SimOff
    /\ SideOff

SpecEngine == EngineAlone /\ [][EngineNext]_vars

(***************************************************************************)
(* Claims about the engine, checked under SpecEngine.                      *)
(***************************************************************************)
PointNumbers == {4, 5, 6, 8, 9, 10}

\* phase and point agree: come-out has no point, point-on has a point number
PhasePointOk(ph, pt) ==
    /\ (ph = COME_OUT) <=> (pt = None)
    /\ ph \in {COME_OUT, POINT_ON}
    /\ IF ph = POINT_ON THEN pt # None /\ pt[1] \in PointNumbers ELSE TRUE

\* C1: after any sequence of apply_roll calls, phase = COME_OUT iff point is
\* None, in POINT_ON the point is one of 4,5,6,8,9,10, and the same holds of
\* (phase_before, point_before) and (phase_after, point_after) of the
\* returned transition.
C1_PhaseIffNoPoint ==
    /\ PhasePointOk(phase, point)
    /\ result # None =>
        /\ PhasePointOk(result[1].phase_before, result[1].point_before)
        /\ PhasePointOk(result[1].phase_after, result[1].point_after)

\* a point cycle has ended and the engine is back in come-out
C1_Witness ==
    /\ result # None
    /\ result[1].phase_before = POINT_ON
    /\ result[1].phase_after = COME_OUT
    /\ phase = COME_OUT

\* C2: in COME_OUT, a roll of 7 or 11 returns WIN and a roll of 2, 3 or 12
\* returns LOSS; the phase stays COME_OUT, the point stays None and
\* completed_points is unchanged.
C2_ComeOutDecisions ==
    [][(phase = COME_OUT /\ result' # None
            /\ Total(result'[1].roll) \in {2, 3, 7, 11, 12})
        => /\ result'[1].pass_line_outcome =
                (IF Total(result'[1].roll) \in {7, 11} THEN WIN ELSE LOSS)
           /\ result'[1].phase_before = COME_OUT
           /\ result'[1].phase_after = COME_OUT
           /\ result'[1].point_after = None
           /\ phase' = COME_OUT
           /\ point' = None
           /\ completed_points' = completed_points]_vars

\* a come-out roll of 11 has been applied
C2_Witness ==
    /\ result # None
    /\ result[1].phase_before = COME_OUT
    /\ Total(result[1].roll) = 11

\* C3: in COME_OUT, a roll with a total in 4,5,6,8,9,10 returns the
\* pass-line outcome PUSH, moves the phase to POINT_ON and sets point and
\* point_after to that total.
C3_ComeOutEstablishesPointPush ==
    (result # None /\ result[1].phase_before = COME_OUT
        /\ Total(result[1].roll) \in PointNumbers)
    => /\ result[1].pass_line_outcome = PUSH
       /\ result[1].phase_after = POINT_ON
       /\ result[1].point_after = Some(Total(result[1].roll))
       /\ phase = POINT_ON
       /\ point = Some(Total(result[1].roll))

\* C4: in POINT_ON with point p, apply_roll returns WIN and resets to
\* COME_OUT with no point exactly when total = p, returns LOSS and resets
\* exactly when total = 7, and for every other total returns PUSH and leaves
\* the phase POINT_ON and the point p.
C4_PointOnDecisions ==
    (result # None /\ result[1].phase_before = POINT_ON)
    => LET r == result[1]
           total == Total(r.roll)
           p == r.point_before[1]
       IN  /\ (r.pass_line_outcome = WIN) <=> (total = p)
           /\ (r.pass_line_outcome = LOSS) <=> (total = 7)
           /\ total \in {p, 7} => phase = COME_OUT /\ point = None
           /\ total \notin {p, 7} =>
                /\ r.pass_line_outcome = PUSH
                /\ phase = POINT_ON
                /\ point = Some(p)

\* C5: completed_points grows by exactly 1 on a transition that makes the
\* point (POINT_ON, total = point), is unchanged by every come-out roll, is
\* never raised by more than 1 by one apply_roll and never decreases.
C5_CompletedPointsSteps ==
    [][/\ (phase = POINT_ON /\ result' # None /\ Some(Total(result'[1].roll)) = point)
            => completed_points' = completed_points + 1
       /\ phase = COME_OUT => completed_points' = completed_points
       /\ completed_points' <= completed_points + 1
       /\ completed_points' >= completed_points]_vars

\* a point has been made and counted
C5_Witness ==
    /\ result # None
    /\ result[1].phase_before = POINT_ON
    /\ result[1].pass_line_outcome = WIN
    /\ completed_points >= 1

\* C6: a seven-out (POINT_ON, total = 7) yields LOSS, resets the engine to
\* COME_OUT with no point and leaves completed_points unchanged.
C6_SevenOutKeepsCompletedPoints ==
    [][(phase = POINT_ON /\ result' # None /\ Total(result'[1].roll) = 7)
        => /\ result'[1].pass_line_outcome = LOSS
           /\ phase' = COME_OUT
           /\ point' = None
           /\ completed_points' = completed_points]_vars

(***************************************************************************)
(* Game (game.py) under the loop of run_until_complete (simulate.py).      *)
(***************************************************************************)
\* Game requires exactly 9 player_states; seats are 0..8
NumSeats == 9
Seats == 0..(NumSeats - 1)

TARGET_POINTS_REACHED == "target_points_reached"
MAX_ROLLS_REACHED == "max_rolls_reached"
NO_BANKROLL_REMAINING == "no_bankroll_remaining"
ALL_MAX_WIN_REACHED == "all_max_win_reached"
ONLY_NON_SHOOTER_LEFT == "only_non_shooter_left"

\* the rolls the dice of a Game produce here: totals 2, 4 (two ways), 5, 7 and 11
DiceRolls ==
    {[d1 |-> 1, d2 |-> 1], [d1 |-> 2, d2 |-> 2], [d1 |-> 2, d2 |-> 3],
     [d1 |-> 3, d2 |-> 4], [d1 |-> 5, d2 |-> 6], [d1 |-> 1, d2 |-> 3]}

\* the players a game is built from: PlayerState with its Player and Bankroll
PlayerInputs ==
    [balance : {0, 1, 2, 100}, max_win : {None, Some(2)}, can_shoot : BOOLEAN,
     strategy : {"flat"}, base_bet : {1}, max_bet : {None}]

\* GameConfig: both limits are None or positive
ConfigInputs ==
    [target_points : {None, Some(1), Some(2)},
     max_rolls : {None} \cup {Some(n) : n \in 1..MaxRolls}]

\* PlayerState.has_bankroll
has_bankroll(state) == state.balance > 0

\* PlayerState.reached_max_win
reached_max_win(state) ==
    state.max_win # None /\ state.balance >= state.max_win[1]

\* Game._eligible_players, as the set of their seats
eligible_players(ps) ==
    {i \in Seats : ps[i] # None /\ has_bankroll(ps[i][1])
                      /\ ~reached_max_win(ps[i][1])}

\* Game._players_with_bankroll, as the set of their seats
players_with_bankroll(ps) ==
    {i \in Seats : ps[i] # None /\ has_bankroll(ps[i][1])}

\* Game._all_max_win_reached
all_max_win_reached(ps) ==
    /\ players_with_bankroll(ps) # {}
    /\ \A i \in players_with_bankroll(ps) :
          ps[i][1].max_win # None /\ reached_max_win(ps[i][1])

\* Game._only_non_shooter_left
only_non_shooter_left(ps) ==
    /\ Cardinality(eligible_players(ps)) = 1
    /\ \A i \in eligible_players(ps) : ~ps[i][1].can_shoot

check_stop_max_rolls_last(gc, cp, rc, ps) ==
    IF gc.target_points # None /\ cp >= gc.target_points[1]
    THEN Some(TARGET_POINTS_REACHED)
    ELSE IF players_with_bankroll(ps) = {}
    THEN Some(NO_BANKROLL_REMAINING)
    ELSE IF all_max_win_reached(ps)
    THEN Some(ALL_MAX_WIN_REACHED)
    ELSE IF only_non_shooter_left(ps)
    THEN Some(ONLY_NON_SHOOTER_LEFT)
    ELSE IF gc.max_rolls # None /\ rc >= gc.max_rolls[1]
    THEN Some(MAX_ROLLS_REACHED)
    ELSE None

check_stop_after_max_rolls(gc, cp, rc, ps) ==
    IF gc.target_points # None /\ cp >= gc.target_points[1]
    THEN Some(TARGET_POINTS_REACHED)
    ELSE IF gc.max_rolls # None /\ rc > gc.max_rolls[1]
    THEN Some(MAX_ROLLS_REACHED)
    ELSE IF players_with_bankroll(ps) = {}
    THEN Some(NO_BANKROLL_REMAINING)
    ELSE IF all_max_win_reached(ps)
    THEN Some(ALL_MAX_WIN_REACHED)
    ELSE IF only_non_shooter_left(ps)
    THEN Some(ONLY_NON_SHOOTER_LEFT)
    ELSE None

\* Game.check_stop, of the config, the engine's completed_points, the roll
\* count and the player states
check_stop(gc, cp, rc, ps) ==
    IF gc.target_points # None /\ cp >= gc.target_points[1]
    THEN Some(TARGET_POINTS_REACHED)
    ELSE IF gc.max_rolls # None /\ rc >= gc.max_rolls[1]
    THEN Some(MAX_ROLLS_REACHED)
    ELSE IF players_with_bankroll(ps) = {}
    THEN Some(NO_BANKROLL_REMAINING)
    ELSE IF all_max_win_reached(ps)
    THEN Some(ALL_MAX_WIN_REACHED)
    ELSE IF only_non_shooter_left(ps)
    THEN Some(ONLY_NON_SHOOTER_LEFT)
    ELSE None

SetMin(S) == CHOOSE x \in S : \A y \in S : x <= y

\* the seat test of _first_shooter_index and _next_shooter_index
shooter_eligible(state) ==
    /\ state # None
    /\ has_bankroll(state[1])
    /\ state[1].can_shoot
    /\ ~reached_max_win(state[1])

\* Game._first_shooter_index; None stands for the ValueError
first_shooter_index(ps) ==
    LET ok == {i \in Seats : shooter_eligible(ps[i])}
    IN  IF ok = {} THEN None ELSE Some(SetMin(ok))

next_shooter_index_can_shoot_only(ps, current_index) ==
    LET ok == {o \in 1..NumSeats :
                  LET st == ps[(current_index + o) % NumSeats]
                  IN  st # None /\ st[1].can_shoot}
    IN  IF ok = {} THEN None ELSE Some((current_index + SetMin(ok)) % NumSeats)

\* Game._next_shooter_index; None stands for the ValueError
next_shooter_index(ps, current_index) ==
    LET ok == {o \in 1..NumSeats :
                  shooter_eligible(ps[(current_index + o) % NumSeats])}
    IN  IF ok = {} THEN None ELSE Some((current_index + SetMin(ok)) % NumSeats)

\* Game._should_rotate_shooter
should_rotate_shooter(rr) ==
    /\ rr.phase_before = POINT_ON
    /\ Total(rr.roll) = 7
    /\ rr.pass_line_outcome = LOSS

\* FlatBetStrategy.next_bet: the amount of the decision
flat_next_bet(bstate) == bstate.base_bet

\* MartingaleStrategy.next_bet: base_bet doubled for every consecutive loss,
\* capped at max_bet
martingale_next_bet(bstate) ==
    LET doubled == bstate.base_bet * 2 ^ bstate.consecutive_losses
    IN  IF bstate.max_bet # None /\ bstate.max_bet[1] < doubled
        THEN bstate.max_bet[1] ELSE doubled

\* strategy.next_bet(state).amount
next_bet(strategy, bstate) ==
    IF strategy = "martingale" THEN martingale_next_bet(bstate)
    ELSE flat_next_bet(bstate)

\* simulate._cap_bet
cap_bet(amount, bankroll) ==
    IF amount <= 0 \/ bankroll <= 0 THEN 0
    ELSE IF amount <= bankroll THEN amount ELSE bankroll

\* simulate._update_betting_state
update_betting_state(bstate, bankroll, outcome) ==
    [bankroll |-> bankroll,
     base_bet |-> bstate.base_bet,
     max_bet |-> bstate.max_bet,
     consecutive_wins |-> IF outcome = WIN THEN bstate.consecutive_wins + 1 ELSE 0,
     consecutive_losses |-> IF outcome = WIN THEN 0 ELSE bstate.consecutive_losses + 1,
     last_outcome |-> Some(outcome)]

\* simulate._init_trackers
init_trackers(ps) ==
    [i \in Seats |->
        IF ps[i] = None THEN None
        ELSE Some([state |-> [bankroll |-> ps[i][1].balance,
                              base_bet |-> ps[i][1].base_bet,
                              max_bet |-> ps[i][1].max_bet,
                              consecutive_wins |-> 0,
                              consecutive_losses |-> 0,
                              last_outcome |-> None],
                   active_bet |-> 0])]

(***************************************************************************)
(* TableStatsCollector (stats.py), the collector run_until_complete gives  *)
(* its Game.                                                               *)
(***************************************************************************)
\* StatsCounters(): every count at 0
EmptyCounters ==
    [rolls |-> 0,
     outcomes |-> [win |-> 0, loss |-> 0, push |-> 0],
     roll_counts |-> [totals |-> [t \in 2..12 |-> 0],
                      die_one |-> [p \in 1..6 |-> 0],
                      die_two |-> [p \in 1..6 |-> 0]],
     point_counts |-> [established |-> [p \in PointNumbers |-> 0],
                       made |-> [p \in PointNumbers |-> 0]]]

\* OutcomeCounts.record
OutcomeCounts_record(oc, outcome) ==
    IF outcome = WIN THEN [oc EXCEPT !.win = @ + 1]
    ELSE IF outcome = LOSS THEN [oc EXCEPT !.loss = @ + 1]
    ELSE [oc EXCEPT !.push = @ + 1]

\* RollCounts.record, for a roll with faces 1..6
RollCounts_record(rc, roll) ==
    [rc EXCEPT !.totals[Total(roll)] = @ + 1,
               !.die_one[roll.d1] = @ + 1,
               !.die_two[roll.d2] = @ + 1]

\* PointCounts.record_established
record_established(pc, p) ==
    IF p \in DOMAIN pc.established THEN [pc EXCEPT !.established[p] = @ + 1] ELSE pc

\* PointCounts.record_made
record_made(pc, p) ==
    IF p \in DOMAIN pc.made THEN [pc EXCEPT !.made[p] = @ + 1] ELSE pc

\* StatsCounters.record
StatsCounters_record(c, rr) ==
    LET pc1 == IF /\ rr.phase_before = COME_OUT
                  /\ rr.pass_line_outcome = PUSH
                  /\ rr.point_after # None
               THEN record_established(c.point_counts, rr.point_after[1])
               ELSE c.point_counts
        pc2 == IF /\ rr.phase_before = POINT_ON
                  /\ rr.pass_line_outcome = WIN
                  /\ rr.point_before # None
               THEN record_made(pc1, rr.point_before[1])
               ELSE pc1
    IN  [rolls |-> c.rolls + 1,
         outcomes |-> OutcomeCounts_record(c.outcomes, rr.pass_line_outcome),
         roll_counts |-> RollCounts_record(c.roll_counts, rr.roll),
         point_counts |-> pc2]

\* TableStatsCollector.__init__
NewStats ==
    [overall |-> EmptyCounters,
     come_out |-> EmptyCounters,
     point_on |-> EmptyCounters,
     per_shooter |-> [i \in Seats |-> None],
     per_player |-> [i \in Seats |-> None],
     end_reason |-> None,
     roll_count |-> 0,
     points_made |-> 0]

\* TableStatsCollector.record_game_start, of the seats taken at the table
record_game_start(st, ps) ==
    [st EXCEPT
        !.per_player = [i \in Seats |-> IF ps[i] # None THEN Some(EmptyCounters)
                                        ELSE st.per_player[i]],
        !.per_shooter = [i \in Seats |-> IF ps[i] # None THEN Some(EmptyCounters)
                                         ELSE st.per_shooter[i]]]

\* the counters of a seat after a roll is recorded for it
seat_record(scope, seat, rr) ==
    [scope EXCEPT ![seat] =
        Some(StatsCounters_record(IF scope[seat] = None THEN EmptyCounters
                                  ELSE scope[seat][1], rr))]

record_roll_raises_beyond_seat_0(seats, seat) == seats[seat] = None \/ seat > 0

\* TableStatsCollector.record_roll raises ValueError for a shooter seat that
\* is empty at the table
record_roll_raises(seats, seat) == seats[seat] = None

record_roll_by_phase_after(st, rr, seat, rolls) ==
    [st EXCEPT
        !.roll_count = rolls,
        !.overall = StatsCounters_record(st.overall, rr),
        !.come_out = IF rr.phase_after = COME_OUT
                     THEN StatsCounters_record(st.come_out, rr) ELSE st.come_out,
        !.point_on = IF rr.phase_after = COME_OUT
                     THEN st.point_on ELSE StatsCounters_record(st.point_on, rr),
        !.per_shooter = seat_record(st.per_shooter, seat, rr),
        !.per_player = seat_record(st.per_player, seat, rr)]

\* TableStatsCollector.record_roll, for a shooter seat that is taken
record_roll(st, rr, seat, rolls) ==
    [st EXCEPT
        !.roll_count = rolls,
        !.overall = StatsCounters_record(st.overall, rr),
        !.come_out = IF rr.phase_before = COME_OUT
                     THEN StatsCounters_record(st.come_out, rr) ELSE st.come_out,
        !.point_on = IF rr.phase_before = COME_OUT
                     THEN st.point_on ELSE StatsCounters_record(st.point_on, rr),
        !.per_shooter = seat_record(st.per_shooter, seat, rr),
        !.per_player = seat_record(st.per_player, seat, rr)]

\* TableStatsCollector.record_game_end
record_game_end(st, reason, rolls, points) ==
    [st EXCEPT !.end_reason = Some(reason), !.roll_count = rolls,
               !.points_made = points]

\* the arguments of run_until_complete: the players, seated in order by
\* Game.from_players, and the GameConfig
GameInit ==
    /\ EngineInit
    /\ \E n \in 1..MaxPlayers : \E seated \in [1..n -> PlayerInputs] :
          player_states =
              [i \in Seats |-> IF i < n THEN Some(seated[i + 1]) ELSE None]
    /\ config \in ConfigInputs
    /\ roll_count = 0
    /\ shooter_index = 0
    /\ stop_reason = None
    /\ trackers = [i \in Seats |-> None]
    /\ stats = NewStats
    /\ gpc = "new"
    /\ SimOff
    /\ SideOff

\* run_until_complete up to its loop: Game.from_players, Game.__init__ (which
\* raises when no seat can shoot) and _init_trackers
game_start ==
    /\ gpc = "new"
    /\ LET first == first_shooter_index(player_states) IN
        IF first = None
        THEN /\ gpc' = "failed"
             /\ UNCHANGED <<shooter_index, trackers, stats>>
        ELSE /\ shooter_index' = first[1]
             /\ stats' = record_game_start(stats, player_states)
             /\ trackers' = init_trackers(player_states)
             /\ gpc' = "place"
    /\ UNCHANGED <<engineVars, player_states, config, roll_count, stop_reason>>
    /\ UNCHANGED <<simVars, sideVars>>

\* simulate._place_bets
place_bets ==
    /\ gpc = "place"
    /\ trackers' =
        [i \in Seats |->
            IF /\ phase = COME_OUT
               /\ player_states[i] # None
               /\ trackers[i] # None
               /\ trackers[i][1].active_bet <= 0
               /\ has_bankroll(player_states[i][1])
               /\ ~reached_max_win(player_states[i][1])
            THEN Some([trackers[i][1] EXCEPT !.active_bet =
                        cap_bet(next_bet(player_states[i][1].strategy,
                                         trackers[i][1].state),
                                trackers[i][1].state.bankroll)])
            ELSE trackers[i]]
    /\ gpc' = "step"
    /\ UNCHANGED <<engineVars, player_states, config, roll_count,
                   shooter_index, stop_reason, stats>>
    /\ UNCHANGED <<simVars, sideVars>>

\* Game.step: roll, count, record the roll (the collector raises for an empty
\* shooter seat), rotate on a seven-out, check the stop conditions and record
\* the end of the game.  Game.__init__ accepts only player_states whose
\* taken seats are those of the table.
step ==
    /\ gpc = "step"
    /\ roll_count < MaxRolls
    /\ \E roll \in DiceRolls :
        /\ apply_roll(roll)
        /\ roll_count' = roll_count + 1
        /\ LET next == IF should_rotate_shooter(result'[1])
                       THEN next_shooter_index(player_states, shooter_index)
                       ELSE Some(shooter_index)
               recorded == record_roll(stats, result'[1], shooter_index, roll_count')
               reason == check_stop(config, completed_points', roll_count',
                                    player_states)
           IN  IF record_roll_raises(player_states, shooter_index)
               THEN /\ gpc' = "raised"
                    /\ UNCHANGED <<shooter_index, stop_reason, stats>>
               ELSE IF next = None
               THEN /\ gpc' = "raised"
                    /\ stats' = recorded
                    /\ UNCHANGED <<shooter_index, stop_reason>>
               ELSE /\ shooter_index' = next[1]
                    /\ stop_reason' = reason
                    /\ stats' = IF reason = None THEN recorded
                                ELSE record_game_end(recorded, reason[1], roll_count',
                                                     completed_points')
                    /\ gpc' = "settle"
    /\ UNCHANGED <<player_states, config, trackers>>
    /\ UNCHANGED <<simVars, sideVars>>

\* the seats _settle_bets settles, and the balance each gets
settling(i) ==
    /\ player_states[i] # None
    /\ trackers[i] # None
    /\ trackers[i][1].active_bet > 0

settled_balance_double_loss(i, outcome) ==
    player_states[i][1].balance +
        (IF outcome = WIN THEN trackers[i][1].active_bet
         ELSE 0 - 2 * trackers[i][1].active_bet)

\* the balance Bankroll.apply(delta) computes for the seat
settled_balance(i, outcome) ==
    player_states[i][1].balance +
        (IF outcome = WIN THEN trackers[i][1].active_bet
         ELSE 0 - trackers[i][1].active_bet)

\* simulate._settle_bets with the outcome of the step, then the loop's test
\* of the step's stop reason; Bankroll.apply raises on a negative balance
settle_bets ==
    /\ gpc = "settle"
    /\ LET outcome == result[1].pass_line_outcome
           raising == {i \in Seats : settling(i) /\ settled_balance(i, outcome) < 0}
           upto == IF raising = {} THEN NumSeats ELSE SetMin(raising)
           settled(i) == outcome # PUSH /\ settling(i) /\ i < upto
       IN  /\ player_states' =
                [i \in Seats |->
                    IF settled(i)
                    THEN Some([player_states[i][1] EXCEPT
                                !.balance = settled_balance(i, outcome)])
                    ELSE player_states[i]]
           /\ trackers' =
                [i \in Seats |->
                    IF settled(i)
                    THEN Some([state |-> update_betting_state(
                                   trackers[i][1].state,
                                   settled_balance(i, outcome), outcome),
                               active_bet |-> 0])
                    ELSE trackers[i]]
           /\ gpc' = IF outcome # PUSH /\ raising # {} THEN "raised"
                     ELSE IF stop_reason # None THEN "done"
                     ELSE "place"
    /\ UNCHANGED <<engineVars, config, roll_count, shooter_index, stop_reason, stats>>
    /\ UNCHANGED <<simVars, sideVars>>

GameNext == game_start \/ place_bets \/ step \/ settle_bets

SpecGame == GameInit /\ [][GameNext]_vars

(***************************************************************************)
(* Simulation (sim.py) with its players (players.py), strategies           *)
(* (strategy.py) and bet ledger (CrapsTable).                              *)
(***************************************************************************)
STRATEGY_FLAT_PASS == "flat_pass"
STRATEGY_PASSLINE_WITH_ODDS == "flat_pass_with_odds"
STRATEGY_PLACE_6_8 == "place_6_8"

BET_TYPE_PASS_LINE == "pass_line"
BET_TYPE_PASS_LINE_ODDS == "pass_line_odds"
BET_TYPE_PLACE_6 == "place_6"
BET_TYPE_PLACE_8 == "place_8"

STOP_REASON_MAX_POINTS == "max_points"
STOP_REASON_BANKROLL == "bankroll_limits"
STOP_REASON_MAX_ROLLS == "max_rolls"

\* the default units of the strategies the registry builds
FlatPassUnit == 25
OddsFlatUnit == 25
OddsMultiple == 2
PlaceUnit == 30

\* the players of a configuration: PlayerConfig
PlayerConfigs ==
    [starting_bankroll : {25, 50, 100}, can_be_shooter : BOOLEAN,
     strategy : {STRATEGY_FLAT_PASS, STRATEGY_PASSLINE_WITH_ODDS, STRATEGY_PLACE_6_8}]

\* SimulationConfig (points, min_bankroll, max_bankroll) and run's max_rolls
SimConfigs ==
    [points : {1, 2}, min_bankroll : {0}, max_bankroll : {50, 100},
     max_rolls : {None} \cup {Some(n) : n \in 1..MaxRolls}]

\* BetDecision(action = ACTION_PLACE, bet_type, amount)
BetDecision(bet_type, amount) == [bet_type |-> bet_type, amount |-> amount]

flat_pass_decide_every_roll(ph, has_pass_line_bet, bankroll) ==
    IF bankroll < FlatPassUnit THEN <<>>
    ELSE <<BetDecision(BET_TYPE_PASS_LINE, FlatPassUnit)>>

\* FlatPassStrategy.decide
flat_pass_decide(ph, has_pass_line_bet, bankroll) ==
    IF ph # COME_OUT THEN <<>>
    ELSE IF has_pass_line_bet THEN <<>>
    ELSE IF bankroll < FlatPassUnit THEN <<>>
    ELSE <<BetDecision(BET_TYPE_PASS_LINE, FlatPassUnit)>>

odds_decide_on_come_out(ph, has_pass_line_bet, has_pass_line_odds, bankroll) ==
    LET first == IF ph = COME_OUT /\ ~has_pass_line_bet /\ bankroll >= OddsFlatUnit
                 THEN <<BetDecision(BET_TYPE_PASS_LINE, OddsFlatUnit)>>
                 ELSE <<>>
        remaining == IF first = <<>> THEN bankroll ELSE bankroll - OddsFlatUnit
        odds_amount == OddsFlatUnit * OddsMultiple
        second == IF (ph = POINT_ON => has_pass_line_bet) /\ ~has_pass_line_odds
                     /\ remaining >= odds_amount
                  THEN <<BetDecision(BET_TYPE_PASS_LINE_ODDS, odds_amount)>>
                  ELSE <<>>
    IN  first \o second

\* PassLineWithOddsStrategy.decide
passline_with_odds_decide(ph, has_pass_line_bet, has_pass_line_odds, bankroll) ==
    LET first == IF ph = COME_OUT /\ ~has_pass_line_bet /\ bankroll >= OddsFlatUnit
                 THEN <<BetDecision(BET_TYPE_PASS_LINE, OddsFlatUnit)>>
                 ELSE <<>>
        remaining == IF first = <<>> THEN bankroll ELSE bankroll - OddsFlatUnit
        odds_amount == OddsFlatUnit * OddsMultiple
        second == IF ph = POINT_ON /\ has_pass_line_bet /\ ~has_pass_line_odds
                     /\ remaining >= odds_amount
                  THEN <<BetDecision(BET_TYPE_PASS_LINE_ODDS, odds_amount)>>
                  ELSE <<>>
    IN  first \o second

place_six_eight_decide_whole_bankroll_twice(ph, has_place_6, has_place_8, bankroll) ==
    IF ph # POINT_ON THEN <<>>
    ELSE LET first == IF ~has_place_6 /\ bankroll >= PlaceUnit
                      THEN <<BetDecision(BET_TYPE_PLACE_6, PlaceUnit)>>
                      ELSE <<>>
             second == IF ~has_place_8 /\ bankroll >= PlaceUnit
                       THEN <<BetDecision(BET_TYPE_PLACE_8, PlaceUnit)>>
                       ELSE <<>>
         IN  first \o second

\* PlaceSixEightStrategy.decide
place_six_eight_decide(ph, has_place_6, has_place_8, bankroll) ==
    IF ph # POINT_ON THEN <<>>
    ELSE LET first == IF ~has_place_6 /\ bankroll >= PlaceUnit
                      THEN <<BetDecision(BET_TYPE_PLACE_6, PlaceUnit)>>
                      ELSE <<>>
             remaining == IF first = <<>> THEN bankroll ELSE bankroll - PlaceUnit
             second == IF ~has_place_8 /\ remaining >= PlaceUnit
                       THEN <<BetDecision(BET_TYPE_PLACE_8, PlaceUnit)>>
                       ELSE <<>>
         IN  first \o second

\* strategy.decide(game_state, player) with the game_state run builds: the
\* phase and has_pass_line_bet; the keys it does not set read as False
decide(strategy, ph, has_pass_line_bet, bankroll) ==
    IF strategy = STRATEGY_FLAT_PASS
    THEN flat_pass_decide(ph, has_pass_line_bet, bankroll)
    ELSE IF strategy = STRATEGY_PASSLINE_WITH_ODDS
    THEN passline_with_odds_decide(ph, has_pass_line_bet, FALSE, bankroll)
    ELSE place_six_eight_decide(ph, FALSE, FALSE, bankroll)

\* create_player_states: one PlayerState per PlayerConfig
create_player_state(pcfg) ==
    [config |-> pcfg,
     bankroll |-> pcfg.starting_bankroll,
     total_profit |-> 0,
     shooter_profit |-> 0,
     is_current_shooter |-> FALSE,
     points_played_as_shooter |-> 0]

\* PlayerState.credit, for an amount >= 0
credit(player, amount) ==
    [player EXCEPT
        !.bankroll = player.bankroll + amount,
        !.total_profit = (player.bankroll + amount) - player.config.starting_bankroll,
        !.shooter_profit = IF player.is_current_shooter
                           THEN player.shooter_profit + amount
                           ELSE player.shooter_profit]

\* PlayerState.debit, for 0 <= amount <= bankroll
debit(player, amount) ==
    [player EXCEPT
        !.bankroll = player.bankroll - amount,
        !.total_profit = (player.bankroll - amount) - player.config.starting_bankroll,
        !.shooter_profit = IF player.is_current_shooter
                           THEN player.shooter_profit - amount
                           ELSE player.shooter_profit]

\* PlayerState.debit raises ValueError for these arguments
debit_raises(player, amount) == amount < 0 \/ amount > player.bankroll

\* Bet(player_index, bet_type, base_amount)
Bet(player_index, bet_type, base_amount) ==
    [player_index |-> player_index, bet_type |-> bet_type,
     base_amount |-> base_amount]

\* CrapsTable.has_pass_line_bet
table_has_pass_line_bet(bs, index) ==
    \E k \in 1..Len(bs) :
        bs[k].player_index = index /\ bs[k].bet_type = BET_TYPE_PASS_LINE

\* CrapsTable.place_bet
table_place_bet(bs, bet) == Append(bs, bet)

resolves_always(bet, pcr) == bet.bet_type = BET_TYPE_PASS_LINE

\* whether resolve_on_point_cycle_result resolves this bet on this transition
resolves(bet, pcr) ==
    /\ bet.bet_type = BET_TYPE_PASS_LINE
    /\ pcr.pass_line_outcome \in {WIN, LOSS}

ResolvedBetStakeBack(bet, pcr) ==
    LET payout == IF pcr.pass_line_outcome = WIN THEN bet.base_amount ELSE 0
    IN  [bet |-> bet, payout |-> payout, profit |-> payout - bet.base_amount]

\* ResolvedBet(bet, payout, profit) of a pass-line bet: even money
ResolvedBet(bet, pcr) ==
    LET payout == IF pcr.pass_line_outcome = WIN THEN 2 * bet.base_amount ELSE 0
    IN  [bet |-> bet, payout |-> payout, profit |-> payout - bet.base_amount]

\* CrapsTable.resolve_on_point_cycle_result: the resolved bets it returns ...
table_resolved(bs, pcr) ==
    LET F[k \in 0..Len(bs)] ==
            IF k = 0 THEN <<>>
            ELSE IF resolves(bs[k], pcr)
                 THEN Append(F[k - 1], ResolvedBet(bs[k], pcr))
                 ELSE F[k - 1]
    IN  F[Len(bs)]

\* ... and the bets it leaves in the ledger
table_remaining(bs, pcr) ==
    LET F[k \in 0..Len(bs)] ==
            IF k = 0 THEN <<>>
            ELSE IF resolves(bs[k], pcr) THEN F[k - 1]
                 ELSE Append(F[k - 1], bs[k])
    IN  F[Len(bs)]

\* Simulation._player_at_global_limits
player_at_global_limits(player) ==
    \/ player.bankroll <= cfg.min_bankroll
    \/ player.bankroll > cfg.max_bankroll

\* Simulation._should_stop, of completed_points and the players
should_stop(cp, ps) ==
    IF cp >= cfg.points THEN Some(STOP_REASON_MAX_POINTS)
    ELSE IF \A k \in 1..Len(ps) : player_at_global_limits(ps[k])
    THEN Some(STOP_REASON_BANKROLL)
    ELSE None

\* Simulation._select_initial_shooter (0-based index)
select_initial_shooter(ps) ==
    LET ok == {k \in 0..(Len(ps) - 1) : ps[k + 1].config.can_be_shooter}
    IN  IF ok = {} THEN 0 ELSE SetMin(ok)

\* the seat _advance_shooter moves the shooter to (0-based)
advance_shooter_index(ps, current) ==
    LET ok == {o \in 1..Len(ps) :
                  ps[((current + o) % Len(ps)) + 1].config.can_be_shooter}
    IN  IF ok = {} THEN current ELSE (current + SetMin(ok)) % Len(ps)

\* Simulation._advance_shooter: the players after the rotation
advance_shooter_players(ps, current) ==
    LET found == \E o \in 1..Len(ps) :
                    ps[((current + o) % Len(ps)) + 1].config.can_be_shooter
        new == advance_shooter_index(ps, current)
    IN  [k \in 1..Len(ps) |->
            [ps[k] EXCEPT !.is_current_shooter =
                IF found /\ k = new + 1 THEN TRUE
                ELSE IF k = current + 1 THEN FALSE
                ELSE ps[k].is_current_shooter]]

\* run's test for rotating the shooter after a roll
rotates(pcr) == pcr.completed_point

\* Simulation._apply_bet_decisions for one player: the player and the ledger
\* after the first n decisions, and whether debit has raised
apply_bet_decisions(decisions, player_index, player, bs) ==
    LET F[n \in 0..Len(decisions)] ==
            IF n = 0 THEN [player |-> player, bets |-> bs, raised |-> FALSE]
            ELSE LET d == decisions[n]
                     prev == F[n - 1]
                 IN  IF prev.raised THEN prev
                     ELSE IF d.bet_type # BET_TYPE_PASS_LINE THEN prev
                     ELSE IF d.amount <= 0 \/ prev.player.bankroll < d.amount
                     THEN prev
                     ELSE IF debit_raises(prev.player, d.amount)
                     THEN [prev EXCEPT !.raised = TRUE]
                     ELSE [player |-> debit(prev.player, d.amount),
                           bets |-> table_place_bet(prev.bets,
                                        Bet(player_index, d.bet_type, d.amount)),
                           raised |-> FALSE]
    IN  F[Len(decisions)]

\* the loop over the players at the start of a roll: players and ledger after
\* the first n players have acted, and whether debit has raised
players_act(ps, bs, ph) ==
    LET F[n \in 0..Len(ps)] ==
            IF n = 0 THEN [players |-> ps, bets |-> bs, raised |-> FALSE]
            ELSE LET prev == F[n - 1]
                     player == prev.players[n]
                 IN  IF prev.raised THEN prev
                     ELSE IF player_at_global_limits(player) THEN prev
                     ELSE LET r == apply_bet_decisions(
                                      decide(player.config.strategy, ph,
                                             table_has_pass_line_bet(prev.bets, n - 1),
                                             player.bankroll),
                                      n - 1, player, prev.bets)
                          IN  [players |-> [prev.players EXCEPT ![n] = r.player],
                               bets |-> r.bets,
                               raised |-> r.raised]
    IN  F[Len(ps)]

apply_payouts_to_nobody(ps, resolved) == ps

\* the payout loop of run: each resolved bet's payout credited to its player
apply_payouts(ps, resolved) ==
    LET F[n \in 0..Len(resolved)] ==
            IF n = 0 THEN ps
            ELSE LET r == resolved[n]
                     k == r.bet.player_index + 1
                 IN  IF r.payout > 0
                     THEN [F[n - 1] EXCEPT ![k] = credit(F[n - 1][k], r.payout)]
                     ELSE F[n - 1]
    IN  F[Len(resolved)]

\* SimulationEvent, without the bets and shooter profit it copies
SimulationEvent(index, shooter, shooter_rolls, point_cycle, resolved) ==
    [roll_index |-> index, shooter_index |-> shooter,
     shooter_roll_index |-> shooter_rolls, point_cycle |-> point_cycle,
     resolved_bets |-> resolved]

\* Simulation(cfg): a configuration with its players, before __init__ has run
SimInit ==
    /\ EngineInit
    /\ GameOff
    /\ SideOff
    /\ cfg \in SimConfigs
    /\ \E n \in 1..MaxPlayers : \E pcfgs \in [1..n -> PlayerConfigs] :
          players = [k \in 1..n |-> create_player_state(pcfgs[k])]
    /\ current_shooter_index = 0
    /\ roll_index = 0
    /\ shooter_roll_index = 0
    /\ bets = <<>>
    /\ resolved_bets = <<>>
    /\ event = None
    /\ sim_stop_reason = None
    /\ spc = "new"
    /\ frames = <<>>

\* Simulation.__init__: the initial shooter
sim_init ==
    /\ spc = "new"
    /\ current_shooter_index' = select_initial_shooter(players)
    /\ players' = [players EXCEPT
                     ![select_initial_shooter(players) + 1].is_current_shooter = TRUE]
    /\ spc' = "run"
    /\ UNCHANGED <<cfg, roll_index, shooter_roll_index, bets, resolved_bets,
                   event, sim_stop_reason, frames>>
    /\ UNCHANGED <<engineVars, gameVars, sideVars>>

stage_delivered_roll_before_bets(at) ==
    IF at = "run" THEN "initial"
    ELSE IF at = "bets" THEN "after_roll"
    ELSE IF at = "roll" THEN "after_bets"
    ELSE "after_payouts"

\* the stage run gives its frame callback at each of its four call sites
stage_delivered(at) ==
    IF at = "run" THEN "initial"
    ELSE IF at = "bets" THEN "after_bets"
    ELSE IF at = "roll" THEN "after_roll"
    ELSE "after_payouts"

\* frame_callback(self, event, stage) for a callback that records the stage,
\* the roll index it sees and whether it was given an event
frame_callback(fs, at, index, given) ==
    Append(fs, [stage |-> stage_delivered(at), roll_index |-> index,
                event |-> given])

\* Simulation.run up to its loop: the immediate stop check and the initial
\* frame, delivered whether run stops at once or not
run_start ==
    /\ spc = "run"
    /\ frames' = frame_callback(frames, spc, roll_index, FALSE)
    /\ sim_stop_reason' = should_stop(completed_points, players)
    /\ spc' = IF should_stop(completed_points, players) # None THEN "done" ELSE "bets"
    /\ UNCHANGED <<cfg, players, current_shooter_index, roll_index,
                   shooter_roll_index, bets, resolved_bets, event>>
    /\ UNCHANGED <<engineVars, gameVars, sideVars>>

max_rolls_reached_when_passed(max_rolls, index) ==
    max_rolls # None /\ index > max_rolls[1]

\* run's max-rolls guard before starting the next roll
max_rolls_reached(max_rolls, index) ==
    max_rolls # None /\ index >= max_rolls[1]

\* the head of run's loop: the max-rolls guard, then the players place bets
\* and the after_bets frame
run_bets ==
    /\ spc = "bets"
    /\ IF max_rolls_reached(cfg.max_rolls, roll_index)
       THEN /\ sim_stop_reason' = Some(STOP_REASON_MAX_ROLLS)
            /\ spc' = "done"
            /\ UNCHANGED <<players, roll_index, shooter_roll_index, bets, frames>>
       ELSE /\ roll_index < MaxRolls
            /\ roll_index' = roll_index + 1
            /\ shooter_roll_index' = shooter_roll_index + 1
            /\ players' = players_act(players, bets, phase).players
            /\ bets' = players_act(players, bets, phase).bets
            /\ spc' = IF players_act(players, bets, phase).raised
                      THEN "raised" ELSE "roll"
            /\ frames' = IF players_act(players, bets, phase).raised THEN frames
                         ELSE frame_callback(frames, spc, roll_index', FALSE)
            /\ UNCHANGED sim_stop_reason
    /\ UNCHANGED <<cfg, current_shooter_index, resolved_bets, event>>
    /\ UNCHANGED <<engineVars, gameVars, sideVars>>

\* run: the roll, the event made of it and the after_roll frame
run_roll ==
    /\ spc = "roll"
    /\ \E roll \in DiceRolls : apply_roll(roll)
    /\ event' = Some(SimulationEvent(roll_index, current_shooter_index,
                                     shooter_roll_index, result'[1], <<>>))
    /\ frames' = frame_callback(frames, spc, roll_index, TRUE)
    /\ spc' = "payouts"
    /\ UNCHANGED <<cfg, players, current_shooter_index, roll_index,
                   shooter_roll_index, bets, resolved_bets, sim_stop_reason>>
    /\ UNCHANGED <<gameVars, sideVars>>

\* run: bets resolved against the roll, payouts credited, the shooter rotated
\* on a completed point cycle, the event recorded, the after_payouts frame
\* and the stop check
run_payouts ==
    /\ spc = "payouts"
    /\ LET point_cycle == result[1]
           resolved == table_resolved(bets, point_cycle)
           paid == apply_payouts(players, resolved)
           counted == [paid EXCEPT ![current_shooter_index + 1].points_played_as_shooter
                                      = @ + 1]
           after == IF rotates(point_cycle)
                    THEN advance_shooter_players(counted, current_shooter_index)
                    ELSE paid
       IN  /\ resolved_bets' = resolved
           /\ bets' = table_remaining(bets, point_cycle)
           /\ players' = after
           /\ current_shooter_index' =
                IF rotates(point_cycle)
                THEN advance_shooter_index(counted, current_shooter_index)
                ELSE current_shooter_index
           /\ shooter_roll_index' =
                IF rotates(point_cycle) THEN 0 ELSE shooter_roll_index
           /\ event' = Some(SimulationEvent(roll_index, current_shooter_index',
                                            shooter_roll_index', point_cycle,
                                            resolved))
           /\ frames' = frame_callback(frames, spc, roll_index, TRUE)
           /\ sim_stop_reason' = should_stop(completed_points, after)
           /\ spc' = IF should_stop(completed_points, after) # None
                     THEN "done" ELSE "bets"
    /\ UNCHANGED <<cfg, roll_index>>
    /\ UNCHANGED <<engineVars, gameVars, sideVars>>

SimNext == sim_init \/ run_start \/ run_bets \/ run_roll \/ run_payouts

SpecSim == SimInit /\ [][SimNext]_vars

(***************************************************************************)
(* Both programs of the package: a Game driven by run_until_complete or a  *)
(* Simulation driven by run.                                               *)
(***************************************************************************)
CrapsInit == GameInit \/ SimInit

CrapsNext == GameNext \/ SimNext

SpecCraps == CrapsInit /\ [][CrapsNext]_vars

(***************************************************************************)
(* Shooter rotation, stop reasons and the bet ledger.                      *)
(***************************************************************************)
SevenOut(rr) ==
    rr.phase_before = POINT_ON /\ Total(rr.roll) = 7 /\ rr.pass_line_outcome = LOSS

\* new is the first seat among s + 1, s + 2, ... modulo n that satisfies ok
FirstSeatAfter(s, new, n, ok(_)) ==
    /\ new \in 0..(n - 1)
    /\ ok(new)
    /\ \A o \in 1..n : (s + o) % n = new
          => \A q \in 1..(o - 1) : ~ok((s + q) % n)

\* C7: in every step of a run the shooter rotation is executed iff the
\* step's transition is a seven-out (POINT_ON before, total 7, LOSS); a made
\* point, a come-out win or loss and every roll without decision leave the
\* current shooter (and, in a Simulation, the shooter's roll index) as it is.
C7_RotationIffSevenOut ==
    [][/\ (gpc = "step" /\ result' # None /\ ~SevenOut(result'[1]))
            => shooter_index' = shooter_index
       /\ (spc = "payouts" /\ ~SevenOut(result[1]))
            => /\ current_shooter_index' = current_shooter_index
               /\ shooter_roll_index' = shooter_roll_index
       /\ (spc = "payouts" /\ SevenOut(result[1]))
            => shooter_roll_index' = 0]_vars

\* C8, as stated: a rotation from seat s moves the shooter to the first seat
\* among s + 1, s + 2, ... modulo the number of seats whose player has
\* can_shoot; the shooter stays at s when s is the only such seat.
C8_NextCanShootSeat ==
    [][/\ (gpc = "step" /\ result' # None /\ SevenOut(result'[1]))
            => LET can(i) == player_states[i] # None /\ player_states[i][1].can_shoot
               IN  (\E i \in Seats : can(i))
                      => /\ gpc' = "settle"
                         /\ FirstSeatAfter(shooter_index, shooter_index', NumSeats, can)
       /\ (spc = "payouts" /\ result[1].completed_point)
            => LET can(i) == players[i + 1].config.can_be_shooter
               IN  IF \E i \in 0..(Len(players) - 1) : can(i)
                   THEN FirstSeatAfter(current_shooter_index, current_shooter_index',
                                       Len(players), can)
                   ELSE current_shooter_index' = current_shooter_index]_vars

\* C8, amended: a rotation of a Game from seat s moves the shooter to the
\* first seat among s + 1, ..., s + 9 modulo 9 whose player has bankroll, has
\* can_shoot and has not reached max_win (s itself when it is the only one),
\* and raises when no seat qualifies; a rotation of a Simulation moves the
\* shooter to the first index among s + 1, ... modulo the number of players
\* whose player has can_be_shooter, and leaves it at s when there is none.
C8_NextEligibleSeat ==
    [][/\ (gpc = "step" /\ result' # None /\ SevenOut(result'[1]))
            => LET ok(i) == /\ player_states[i] # None
                            /\ player_states[i][1].balance > 0
                            /\ player_states[i][1].can_shoot
                            /\ ~reached_max_win(player_states[i][1])
               IN  IF \E i \in Seats : ok(i)
                   THEN /\ gpc' = "settle"
                        /\ FirstSeatAfter(shooter_index, shooter_index', NumSeats, ok)
                   ELSE /\ gpc' = "raised"
                        /\ shooter_index' = shooter_index
       /\ (spc = "payouts" /\ result[1].completed_point)
            => LET can(i) == players[i + 1].config.can_be_shooter
               IN  IF \E i \in 0..(Len(players) - 1) : can(i)
                   THEN FirstSeatAfter(current_shooter_index, current_shooter_index',
                                       Len(players), can)
                   ELSE current_shooter_index' = current_shooter_index]_vars

\* a Game has rotated on a seven-out and passed over a seat whose player can
\* shoot but has no bankroll left
C8_Witness ==
    /\ gpc = "settle"
    /\ SevenOut(result[1])
    /\ \E i \in Seats :
          /\ i # shooter_index
          /\ player_states[i] # None
          /\ player_states[i][1].can_shoot
          /\ player_states[i][1].balance = 0

\* the five conditions of check_stop, after a step
TargetReached ==
    config.target_points # None /\ completed_points >= config.target_points[1]

MaxRollsReached ==
    config.max_rolls # None /\ roll_count >= config.max_rolls[1]

NoBankroll == \A i \in Seats : player_states[i] # None => player_states[i][1].balance <= 0

\* the reason reported is the first of the listed conditions that holds
FirstOf(conds) ==
    \A k \in 1..Len(conds) :
        stop_reason = Some(conds[k].reason)
            <=> (conds[k].holds /\ \A j \in 1..(k - 1) : ~conds[j].holds)

\* C9, as stated: check_stop reports the first satisfied condition in the
\* order target points, no bankroll, all at max win, only a non-shooter left,
\* max rolls; one reason at most is reported.
C9_StopOrderMaxRollsLast ==
    gpc = "settle" =>
        FirstOf(<<[reason |-> TARGET_POINTS_REACHED, holds |-> TargetReached],
                  [reason |-> NO_BANKROLL_REMAINING, holds |-> NoBankroll],
                  [reason |-> ALL_MAX_WIN_REACHED,
                   holds |-> all_max_win_reached(player_states)],
                  [reason |-> ONLY_NON_SHOOTER_LEFT,
                   holds |-> only_non_shooter_left(player_states)],
                  [reason |-> MAX_ROLLS_REACHED, holds |-> MaxRollsReached]>>)

\* C9, amended: check_stop reports the first satisfied condition in the order
\* target points, max rolls, no bankroll, all at max win, only a non-shooter
\* left: when max_rolls is reached, max-rolls-reached is reported even if no
\* player has bankroll; one reason at most is reported, and none when no
\* condition holds.
C9_StopOrderMaxRollsSecond ==
    gpc = "settle" =>
        /\ FirstOf(<<[reason |-> TARGET_POINTS_REACHED, holds |-> TargetReached],
                     [reason |-> MAX_ROLLS_REACHED, holds |-> MaxRollsReached],
                     [reason |-> NO_BANKROLL_REMAINING, holds |-> NoBankroll],
                     [reason |-> ALL_MAX_WIN_REACHED,
                      holds |-> all_max_win_reached(player_states)],
                     [reason |-> ONLY_NON_SHOOTER_LEFT,
                      holds |-> only_non_shooter_left(player_states)]>>)
        /\ stop_reason = None
              <=> ~(TargetReached \/ MaxRollsReached \/ NoBankroll
                    \/ all_max_win_reached(player_states)
                    \/ only_non_shooter_left(player_states))

\* max_rolls is reached by the step after which no player has bankroll, and
\* max-rolls-reached is the reason reported
C9_Witness ==
    /\ gpc = "settle"
    /\ MaxRollsReached
    /\ NoBankroll
    /\ ~TargetReached
    /\ stop_reason = Some(MAX_ROLLS_REACHED)

\* C10: resolving the ledger against a transition removes every pass-line bet
\* when the outcome is WIN or LOSS, one resolved bet returned for each; on any
\* other outcome (point established, point-on roll without decision) it
\* returns no resolved bets and the ledger is unchanged, owners and stakes
\* included.
C10_ResolveIffWinOrLoss ==
    [][spc = "payouts" =>
        LET pass_line(bs) == {k \in 1..Len(bs) : bs[k].bet_type = BET_TYPE_PASS_LINE}
        IN  IF result[1].pass_line_outcome \in {WIN, LOSS}
            THEN /\ pass_line(bets') = {}
                 /\ Len(resolved_bets') = Cardinality(pass_line(bets))
                 /\ \A k \in 1..Len(resolved_bets') :
                       resolved_bets'[k].bet \in {bets[j] : j \in pass_line(bets)}
            ELSE /\ resolved_bets' = <<>>
                 /\ bets' = bets]_vars

\* a pass-line bet has stayed in the ledger over the roll that set the point
\* and has been resolved by a later point-on roll
C10_Witness ==
    /\ spc \in {"bets", "done"}
    /\ result # None
    /\ result[1].phase_before = POINT_ON
    /\ result[1].pass_line_outcome \in {WIN, LOSS}
    /\ resolved_bets # <<>>
    /\ bets = <<>>

\* C11: every resolved pass-line bet with stake a reports payout 2a and
\* profit a on WIN, payout 0 and profit -a on LOSS, so profit = payout - stake,
\* for a decision on the come-out roll as for one after a point.
C11_PassLinePayout ==
    (spc \in {"bets", "done"} /\ result # None) =>
        \A k \in 1..Len(resolved_bets) :
            LET r == resolved_bets[k]
                a == r.bet.base_amount
            IN  /\ r.bet.bet_type = BET_TYPE_PASS_LINE
                /\ result[1].pass_line_outcome \in {WIN, LOSS}
                /\ result[1].pass_line_outcome = WIN => (r.payout = 2 * a /\ r.profit = a)
                /\ result[1].pass_line_outcome = LOSS => (r.payout = 0 /\ r.profit = 0 - a)
                /\ r.profit = r.payout - a

\* a pass-line bet has been resolved as a win by the roll that made the point
C11_Witness ==
    /\ spc \in {"bets", "done"}
    /\ result # None
    /\ result[1].phase_before = POINT_ON
    /\ result[1].pass_line_outcome = WIN
    /\ \E k \in 1..Len(resolved_bets) : resolved_bets[k].payout = 2 * FlatPassUnit

\* the run of a Game with one pass-line player who started with 100 (a
\* balance within two stakes of 100 has no other origin), target_points = 1
GameOfOne ==
    /\ gpc \notin {"off", "new"}
    /\ player_states[1] = None
    /\ player_states[0] # None
    /\ player_states[0][1].balance >= 98
    /\ player_states[0][1].max_win = None
    /\ player_states[0][1].can_shoot
    /\ config = [target_points |-> Some(1), max_rolls |-> None]

\* the run of a Simulation with one flat_pass player of bankroll 100, points = 1
SimOfOne ==
    /\ spc \notin {"off", "new"}
    /\ Len(players) = 1
    /\ players[1].config = [starting_bankroll |-> 100, can_be_shooter |-> TRUE,
                            strategy |-> STRATEGY_FLAT_PASS]
    /\ cfg.points = 1
    /\ cfg.max_rolls = None

\* the last roll was the first of the run and set the point 4 with (2, 2)
AfterPointSet(rolls) ==
    /\ rolls = 1
    /\ result # None
    /\ result[1].roll = [d1 |-> 2, d2 |-> 2]

\* the last roll was the second of the run and made the point 4 with (1, 3)
AfterPointMade(rolls) ==
    /\ rolls = 2
    /\ result # None
    /\ result[1].roll = [d1 |-> 1, d2 |-> 3]
    /\ result[1].point_before = Some(4)

\* C12: a run with one pass-line player (bankroll 100, target_points = 1) fed
\* the rolls (2, 2) and (1, 3) does not end after the first roll and ends after
\* the second with the target-points reason, completed_points = 1, no bet
\* left and a bankroll of 100 plus the stake of the one pass-line bet.
C12_OnePlayerMakesThePoint ==
    /\ (GameOfOne /\ AfterPointSet(roll_count))
          => (gpc # "done" /\ (gpc = "settle" => stop_reason = None))
    /\ (GameOfOne /\ AfterPointMade(roll_count) /\ gpc = "settle")
          => stop_reason = Some(TARGET_POINTS_REACHED)
    /\ (GameOfOne /\ AfterPointMade(roll_count) /\ gpc = "done")
          => /\ stop_reason = Some(TARGET_POINTS_REACHED)
             /\ completed_points = 1
             /\ trackers[0][1].active_bet = 0
             /\ player_states[0][1].balance = 100 + player_states[0][1].base_bet
    /\ (SimOfOne /\ AfterPointSet(roll_index)) => spc # "done"
    /\ (SimOfOne /\ AfterPointMade(roll_index) /\ spc = "done")
          => /\ sim_stop_reason = Some(STOP_REASON_MAX_POINTS)
             /\ completed_points = 1
             /\ bets = <<>>
             /\ players[1].bankroll = 100 + FlatPassUnit

\* C13: a game with one funded player, max_rolls = 1 and no target_points
\* reports max-rolls-reached from its first step whatever the roll; with
\* max_rolls = N the N-th step reports some stop reason, and roll_count never
\* exceeds N in a run that ends at the first reason reported.
C13_MaxRollsEndsTheRun ==
    /\ (gpc = "settle" /\ config = [target_points |-> None, max_rolls |-> Some(1)]
          /\ player_states[1] = None)
          => stop_reason = Some(MAX_ROLLS_REACHED)
    /\ (gpc = "settle" /\ config.max_rolls = Some(roll_count)) => stop_reason # None
    /\ (gpc # "off" /\ config.max_rolls # None) => roll_count <= config.max_rolls[1]

\* the first step of a game of one funded player with max_rolls = 1 and no
\* target_points has been taken
C13_Witness ==
    /\ gpc = "settle"
    /\ config = [target_points |-> None, max_rolls |-> Some(1)]
    /\ player_states[1] = None
    /\ player_states[0][1].balance > 0
    /\ roll_count = 1
    /\ stop_reason = Some(MAX_ROLLS_REACHED)

(***************************************************************************)
(* The placement of one pass-line decision, applied on its own: by         *)
(* _place_bets (simulate.py) and by _apply_bet_decisions (sim.py).         *)
(***************************************************************************)
BetCallInputs == [amount : (0 - 1)..MaxStake, bankroll : 0..MaxStake]

BetCallsInit ==
    /\ EngineInit
    /\ GameOff
    /\ SimOff
    /\ twin = None
    /\ call \in {Some(c) : c \in BetCallInputs}
    /\ ret = None
    /\ heap = <<>>
    /\ collector = None
    /\ snap = None
    /\ calls = 0

\* _place_bets for one seat whose strategy asks for call.amount: the
\* active_bet it records and the bankroll, which it leaves alone
place_bets_call ==
    /\ call # None
    /\ ret = None
    /\ ret' = Some([by |-> "_place_bets",
                    wagered |-> cap_bet(call[1].amount, call[1].bankroll),
                    bankroll |-> call[1].bankroll])
    /\ UNCHANGED <<engineVars, gameVars, simVars, twin, call, statsVars>>

\* _apply_bet_decisions for one player and one pass-line decision of
\* call.amount: the stake of the bet placed, if any, and the bankroll
apply_bet_decisions_call ==
    /\ call # None
    /\ ret = None
    /\ LET player == create_player_state(
                        [starting_bankroll |-> call[1].bankroll,
                         can_be_shooter |-> TRUE, strategy |-> STRATEGY_FLAT_PASS])
           r == apply_bet_decisions(
                    <<BetDecision(BET_TYPE_PASS_LINE, call[1].amount)>>, 0, player, <<>>)
       IN  ret' = Some([by |-> "_apply_bet_decisions",
                        wagered |-> IF r.bets = <<>> THEN 0 ELSE r.bets[1].base_amount,
                        bankroll |-> r.player.bankroll])
    /\ UNCHANGED <<engineVars, gameVars, simVars, twin, call, statsVars>>

BetCallsNext == place_bets_call \/ apply_bet_decisions_call

SpecBetCalls == BetCallsInit /\ [][BetCallsNext]_vars

\* C14: a decision whose amount is non-positive or exceeds the bankroll is
\* no bet: nothing is wagered and the bankroll is unchanged, the amount is
\* never reduced to fit; an accepted decision wagers its amount and debits
\* the bankroll by exactly that amount when it is placed.
C14_UnaffordableIsNoBet ==
    (call # None /\ ret # None) =>
        LET a == call[1].amount
            b == call[1].bankroll
        IN  IF a <= 0 \/ a > b
            THEN ret[1].wagered = 0 /\ ret[1].bankroll = b
            ELSE ret[1].wagered = a /\ ret[1].bankroll = b - a

\* C15: in every state of a run every player's balance is a non-negative
\* integer, and neither Bankroll.apply (in _settle_bets) nor PlayerState.debit
\* (in _apply_bet_decisions) raises.
C15_BalancesNeverNegative ==
    /\ gpc # "off" =>
          \A i \in Seats : player_states[i] # None
              => (player_states[i][1].balance \in Nat
                  /\ (trackers[i] # None => trackers[i][1].active_bet \in Nat))
    /\ spc # "off" => \A k \in 1..Len(players) : players[k].bankroll \in Nat
    /\ spc # "raised"
    /\ gpc = "raised" => \A i \in Seats : ~shooter_eligible(player_states[i])

\* a bet that took the whole balance has been settled as a loss in a Game ...
C15_Witness ==
    /\ gpc \in {"place", "done"}
    /\ result # None
    /\ \E i \in Seats :
          /\ trackers[i] # None
          /\ trackers[i][1].state.consecutive_losses >= 1
          /\ player_states[i][1].balance = 0

\* C16: construction makes the lowest-indexed seated player with can_shoot
\* the initial shooter, and fails, producing no game and no simulation, when
\* no seated player has can_shoot.
C16_InitialShooterOrFailure ==
    [][/\ gpc = "new" =>
            LET can == {i \in Seats : player_states[i] # None
                                         /\ player_states[i][1].can_shoot}
            IN  IF can = {} THEN gpc' = "failed"
                ELSE gpc' # "failed" /\ shooter_index' = SetMin(can)
       /\ spc = "new" =>
            LET can == {i \in 0..(Len(players) - 1) : players[i + 1].config.can_be_shooter}
            IN  IF can = {} THEN spc' = "failed"
                ELSE spc' # "failed" /\ current_shooter_index' = SetMin(can)]_vars

(***************************************************************************)
(* Two engines rolled independently of each other.                         *)
(***************************************************************************)
\* the state apply_roll reads: phase, point, completed_points
EngineState(ph, pt, cp) == [phase |-> ph, point |-> pt, completed_points |-> cp]

\* two CrapsEngine(); for each, the state it was in before its last roll
\* (was for the second engine, first_was for the first) is kept beside it
TwinInit ==
    /\ EngineInit
    /\ GameOff
    /\ SimOff
    /\ twin = Some([phase |-> COME_OUT, point |-> None, completed_points |-> 0,
                    result |-> None, was |-> None, first_was |-> None])
    /\ call = None
    /\ ret = None
    /\ heap = <<>>
    /\ collector = None
    /\ snap = None
    /\ calls = 0

\* apply_roll on the first engine
roll_first ==
    /\ twin # None
    /\ completed_points < MaxPoints
    /\ \E roll \in DiceRolls : apply_roll(roll)
    /\ twin' = Some([twin[1] EXCEPT
                       !.first_was = Some(EngineState(phase, point, completed_points))])
    /\ UNCHANGED <<gameVars, simVars, call, ret, statsVars>>

\* apply_roll on the second engine
roll_second ==
    /\ twin # None
    /\ twin[1].completed_points < MaxPoints
    /\ twin[1].phase = POINT_ON => twin[1].point # None
    /\ \E roll \in DiceRolls :
          LET r == ApplyRollResult(twin[1].phase, twin[1].point, roll)
          IN  twin' = Some([phase |-> r.phase_after,
                            point |-> r.point_after,
                            completed_points |->
                                CompletedPointsAfter(twin[1].completed_points,
                                                     r.completed_point),
                            result |-> Some(r),
                            was |-> Some(EngineState(twin[1].phase, twin[1].point,
                                                     twin[1].completed_points)),
                            first_was |-> twin[1].first_was])
    /\ UNCHANGED <<engineVars, gameVars, simVars, call, ret, statsVars>>

TwinNext == roll_first \/ roll_second

SpecTwin == TwinInit /\ [][TwinNext]_vars

\* the last rolls of the two engines were the same roll applied in the same
\* engine state
SameStateSameRoll ==
    /\ twin # None
    /\ result # None
    /\ twin[1].result # None
    /\ twin[1].was = twin[1].first_was
    /\ twin[1].result[1].roll = result[1].roll

RollInputs == [d1 : 0..MaxFace, d2 : 0..MaxFace]

RollCallsInit ==
    /\ EngineInit
    /\ GameOff
    /\ SimOff
    /\ twin = None
    /\ call \in {Some(c) : c \in RollInputs}
    /\ ret = None
    /\ heap = <<>>
    /\ collector = None
    /\ snap = None
    /\ calls = 0

\* dice.Roll.__post_init__: the faces for which it raises ValueError
dice_Roll_raises(d1, d2) == ~(1 <= d1 /\ d1 <= 6) \/ ~(1 <= d2 /\ d2 <= 6)

\* dice.Roll(d1, d2)
dice_Roll_call ==
    /\ call # None
    /\ ret = None
    /\ ret' = Some([by |-> "dice.Roll",
                    raised |-> dice_Roll_raises(call[1].d1, call[1].d2)])
    /\ UNCHANGED <<engineVars, gameVars, simVars, twin, call, statsVars>>

\* engine.Roll(d1, d2), which has no __post_init__, then apply_roll on a fresh
\* CrapsEngine
engine_Roll_call ==
    /\ call # None
    /\ ret = None
    /\ apply_roll([d1 |-> call[1].d1, d2 |-> call[1].d2])
    /\ ret' = Some([by |-> "engine.Roll", raised |-> FALSE])
    /\ UNCHANGED <<gameVars, simVars, twin, call, statsVars>>

RollCallsNext == dice_Roll_call \/ engine_Roll_call

SpecRollCalls == RollCallsInit /\ [][RollCallsNext]_vars

\* C18: a Roll with a face outside 1..6 is rejected when it is constructed,
\* and the engine is never applied to a total outside 2..12.
C18_OutOfRangeRollRejected ==
    /\ (call # None /\ ret # None
          /\ (call[1].d1 \notin 1..6 \/ call[1].d2 \notin 1..6)) => ret[1].raised
    /\ result # None => Total(result[1].roll) \in 2..12

\* the pass-line bets a seat of a Simulation has in the ledger
PassLineBetsOf(bs, index) ==
    {k \in 1..Len(bs) : bs[k].player_index = index /\ bs[k].bet_type = BET_TYPE_PASS_LINE}

\* C19: in every state of a run each seat has at most one active pass-line
\* bet, and a pass-line bet is placed for a seat only while the phase is
\* COME_OUT and the seat has no unresolved pass-line bet.
C19_OnePassLineBetPerSeat ==
    [][/\ spc # "off" =>
            \A i \in 0..(Len(players) - 1) :
                /\ Cardinality(PassLineBetsOf(bets', i)) <= 1
                /\ Cardinality(PassLineBetsOf(bets', i)) > Cardinality(PassLineBetsOf(bets, i))
                      => (phase = COME_OUT /\ PassLineBetsOf(bets, i) = {})
       /\ gpc \notin {"off", "new", "failed"} =>
            \A i \in Seats :
                (trackers[i] # None /\ trackers'[i][1].active_bet # trackers[i][1].active_bet
                    /\ trackers'[i][1].active_bet > 0)
                      => (phase = COME_OUT /\ trackers[i][1].active_bet <= 0)]_vars

\* two players of a Simulation each have their one pass-line bet on a roll
\* made while the point is on
C19_Witness ==
    /\ spc = "roll"
    /\ phase = POINT_ON
    /\ Len(players) = 2
    /\ \A i \in 0..1 : Cardinality(PassLineBetsOf(bets, i)) = 1

\* the roll count of a seat's scope, 0 for a seat without counters
SeatRolls(scope, i) == IF scope[i] = None THEN 0 ELSE scope[i][1].rolls

\* the sum of the roll counts of the per-seat scopes
SumOfSeatRolls(scope) ==
    LET F[n \in 0..NumSeats] ==
            IF n = 0 THEN 0 ELSE F[n - 1] + SeatRolls(scope, n - 1)
    IN  F[NumSeats]

\* C20: each record_roll increments by exactly one the roll count of the
\* overall scope, of exactly one of the come-out and point-on scopes (the one
\* of phase_before) and of the per-shooter and per-seat scopes of the shooter
\* seat given, and leaves every other seat's counters unchanged; hence
\* overall.rolls = come_out.rolls + point_on.rolls = the sum of the
\* per-shooter rolls.
C20_RecordRollCounts ==
    [][/\ gpc = "step" =>
            LET rr == result'[1]
                s == shooter_index
            IN  /\ stats'.overall.rolls = stats.overall.rolls + 1
                /\ IF rr.phase_before = COME_OUT
                   THEN /\ stats'.come_out.rolls = stats.come_out.rolls + 1
                        /\ stats'.point_on = stats.point_on
                   ELSE /\ stats'.point_on.rolls = stats.point_on.rolls + 1
                        /\ stats'.come_out = stats.come_out
                /\ SeatRolls(stats'.per_shooter, s) = SeatRolls(stats.per_shooter, s) + 1
                /\ SeatRolls(stats'.per_player, s) = SeatRolls(stats.per_player, s) + 1
                /\ \A i \in Seats \ {s} :
                      /\ stats'.per_shooter[i] = stats.per_shooter[i]
                      /\ stats'.per_player[i] = stats.per_player[i]
       /\ gpc' # "off" =>
            /\ stats'.overall.rolls = stats'.come_out.rolls + stats'.point_on.rolls
            /\ stats'.overall.rolls = SumOfSeatRolls(stats'.per_shooter)]_vars

\* rolls have been recorded on the come-out and with the point on, for two
\* different shooters
C20_Witness ==
    /\ gpc # "off"
    /\ stats.come_out.rolls >= 1
    /\ stats.point_on.rolls >= 1
    /\ SeatRolls(stats.per_shooter, 0) >= 1
    /\ SeatRolls(stats.per_shooter, 1) >= 1

\* C21: for every point value p, each recorded roll adds one to
\* overall established[p] exactly when it is a come-out roll that established
\* point p, adds one to overall made[p] exactly when it is a point-on roll
\* that made point p, and changes neither histogram otherwise.
C21_PointHistograms ==
    [][gpc = "step" =>
        LET rr == result'[1]
            before == stats.overall.point_counts
            after == stats'.overall.point_counts
        IN  \A p \in PointNumbers :
              /\ after.established[p] = before.established[p] +
                    (IF /\ rr.phase_before = COME_OUT
                        /\ rr.phase_after = POINT_ON
                        /\ rr.point_after = Some(p)
                     THEN 1 ELSE 0)
              /\ after.made[p] = before.made[p] +
                    (IF /\ rr.phase_before = POINT_ON
                        /\ rr.point_before = Some(p)
                        /\ Total(rr.roll) = p
                     THEN 1 ELSE 0)]_vars

(***************************************************************************)
(* A TableStatsCollector called on its own.  Its StatsCounters are Python  *)
(* objects: the collector and the snapshots hold references to them, so    *)
(* the objects are kept on a heap and the fields hold their indices.       *)
(***************************************************************************)
MaxCalls == 3

\* the tables given to the collector: which seats are taken
TableInputs ==
    {[i \in Seats |-> IF i \in taken THEN Some("player") ELSE None] :
        taken \in {{0}, {0, 1}}}

\* the transitions given to record_roll: what apply_roll returns on the
\* come-out and with the point 4 on
RollResultInputs ==
    {ApplyRollResult(COME_OUT, None, r) : r \in {[d1 |-> 3, d2 |-> 4], [d1 |-> 2, d2 |-> 2]}}
    \cup {ApplyRollResult(POINT_ON, Some(4), r) :
            r \in {[d1 |-> 2, d2 |-> 2], [d1 |-> 3, d2 |-> 4], [d1 |-> 1, d2 |-> 1]}}

\* the counters a collector or a snapshot c reaches through its references
\* on heap h, with its own fields
view(h, c) ==
    [overall |-> h[c.overall],
     come_out |-> h[c.come_out],
     point_on |-> h[c.point_on],
     per_shooter |-> [i \in Seats |-> IF c.per_shooter[i] = None THEN None
                                      ELSE Some(h[c.per_shooter[i][1]])],
     per_player |-> [i \in Seats |-> IF c.per_player[i] = None THEN None
                                     ELSE Some(h[c.per_player[i][1]])],
     end_reason |-> c.end_reason,
     roll_count |-> c.roll_count,
     points_made |-> c.points_made]

\* the heap after the objects collector c refers to have taken the values v
\* gives them; objects c does not refer to keep their value
store(h, c, v) ==
    LET refs == {c.overall, c.come_out, c.point_on}
                \cup {c.per_shooter[i][1] : i \in {j \in Seats : c.per_shooter[j] # None}}
                \cup {c.per_player[i][1] : i \in {j \in Seats : c.per_player[j] # None}}
        top == CHOOSE n \in refs \cup {Len(h)} : \A m \in refs \cup {Len(h)} : m <= n
    IN  [k \in 1..top |->
            IF k = c.overall THEN v.overall
            ELSE IF k = c.come_out THEN v.come_out
            ELSE IF k = c.point_on THEN v.point_on
            ELSE IF \E i \in Seats : c.per_shooter[i] = Some(k)
            THEN v.per_shooter[CHOOSE i \in Seats : c.per_shooter[i] = Some(k)][1]
            ELSE IF \E i \in Seats : c.per_player[i] = Some(k)
            THEN v.per_player[CHOOSE i \in Seats : c.per_player[i] = Some(k)][1]
            ELSE h[k]]

\* TableStatsCollector(): three StatsCounters objects and two empty dicts
StatsInit ==
    /\ EngineInit
    /\ GameOff
    /\ SimOff
    /\ twin = None
    /\ call = None
    /\ ret = None
    /\ heap = <<EmptyCounters, EmptyCounters, EmptyCounters>>
    /\ collector = Some([overall |-> 1, come_out |-> 2, point_on |-> 3,
                         per_shooter |-> [i \in Seats |-> None],
                         per_player |-> [i \in Seats |-> None],
                         end_reason |-> None, roll_count |-> 0, points_made |-> 0])
    /\ snap = None
    /\ calls = 0

\* record_game_start(table): a new StatsCounters object for each taken seat in
\* each of the two dicts, in place of the object the dict held
record_game_start_call ==
    /\ collector # None
    /\ calls < MaxCalls
    /\ \E table \in TableInputs :
        LET c == collector[1]
            rank(i) == Cardinality({j \in Seats : j < i /\ table[j] # None})
            c2 == [c EXCEPT
                    !.per_player = [i \in Seats |->
                        IF table[i] # None THEN Some(Len(heap) + 2 * rank(i) + 1)
                        ELSE c.per_player[i]],
                    !.per_shooter = [i \in Seats |->
                        IF table[i] # None THEN Some(Len(heap) + 2 * rank(i) + 2)
                        ELSE c.per_shooter[i]]]
        IN  /\ heap' = store(heap, c2, record_game_start(view(heap, c), table))
            /\ collector' = Some(c2)
    /\ calls' = calls + 1
    /\ ret' = Some([by |-> "record_game_start", raised |-> FALSE])
    /\ UNCHANGED <<engineVars, gameVars, simVars, twin, call, snap>>

\* record_roll(roll_result, shooter_index, roll_count, table): raises for an
\* empty shooter seat, else records into the objects the collector refers
\* to, creating the seat's objects when its dicts have none
record_roll_call ==
    /\ collector # None
    /\ calls < MaxCalls
    /\ \E table \in TableInputs, rr \in RollResultInputs,
          seat \in 0..1, rolls \in 1..2 :
        LET c == collector[1]
            new_shooter == c.per_shooter[seat] = None
            new_player == c.per_player[seat] = None
            c2 == [c EXCEPT
                    !.roll_count = rolls,
                    !.per_shooter[seat] =
                        IF new_shooter THEN Some(Len(heap) + 1) ELSE @,
                    !.per_player[seat] =
                        IF new_player
                        THEN Some(Len(heap) + (IF new_shooter THEN 2 ELSE 1))
                        ELSE @]
        IN  IF record_roll_raises(table, seat)
            THEN /\ ret' = Some([by |-> "record_roll", raised |-> TRUE])
                 /\ UNCHANGED <<heap, collector>>
            ELSE /\ heap' = store(heap, c2, record_roll(view(heap, c), rr, seat, rolls))
                 /\ collector' = Some(c2)
                 /\ ret' = Some([by |-> "record_roll", raised |-> FALSE])
    /\ calls' = calls + 1
    /\ UNCHANGED <<engineVars, gameVars, simVars, twin, call, snap>>

\* record_game_end(reason, roll_count, points_made)
record_game_end_call ==
    /\ collector # None
    /\ calls < MaxCalls
    /\ \E reason \in {TARGET_POINTS_REACHED, MAX_ROLLS_REACHED},
          rolls \in 1..2, points \in 0..1 :
        LET c == collector[1]
            v == record_game_end(view(heap, c), reason, rolls, points)
        IN  /\ collector' = Some([c EXCEPT !.end_reason = v.end_reason,
                                           !.roll_count = v.roll_count,
                                           !.points_made = v.points_made])
            /\ heap' = store(heap, c, v)
    /\ calls' = calls + 1
    /\ ret' = Some([by |-> "record_game_end", raised |-> FALSE])
    /\ UNCHANGED <<engineVars, gameVars, simVars, twin, call, snap>>

\* snapshot(): a StatsSnapshot holding the collector's three counter objects
\* themselves, copies of its two dicts (the same objects under the same
\* keys) and its three other fields
snapshot_call ==
    /\ collector # None
    /\ calls < MaxCalls
    /\ snap' = collector
    /\ calls' = calls + 1
    /\ ret' = Some([by |-> "snapshot", raised |-> FALSE])
    /\ UNCHANGED <<engineVars, gameVars, simVars, twin, call, heap, collector>>

StatsNext ==
    record_game_start_call \/ record_roll_call \/ record_game_end_call
        \/ snapshot_call

SpecStats == StatsInit /\ [][StatsNext]_vars

\* C22: a snapshot returned by snapshot() is a copy: what is read from it,
\* counters and fields, is the same before and after any later record_roll
\* or record_game_end on the collector.
C22_SnapshotIsACopy ==
    [][(/\ snap # None
        /\ ret' # None
        /\ ret'[1].by \in {"record_roll", "record_game_end"})
       => view(heap', snap'[1]) = view(heap, snap[1])]_vars

\* every count of StatsCounters a is at most the same count of b
CountersLeq(a, b) ==
    /\ a.rolls <= b.rolls
    /\ a.outcomes.win <= b.outcomes.win
    /\ a.outcomes.loss <= b.outcomes.loss
    /\ a.outcomes.push <= b.outcomes.push
    /\ \A t \in 2..12 : a.roll_counts.totals[t] <= b.roll_counts.totals[t]
    /\ \A f \in 1..6 : /\ a.roll_counts.die_one[f] <= b.roll_counts.die_one[f]
                       /\ a.roll_counts.die_two[f] <= b.roll_counts.die_two[f]
    /\ \A p \in PointNumbers :
          /\ a.point_counts.established[p] <= b.point_counts.established[p]
          /\ a.point_counts.made[p] <= b.point_counts.made[p]

\* the counters of a seat's scope, all 0 for a seat the dict has no entry for
SeatCounters(scope, i) == IF scope[i] = None THEN EmptyCounters ELSE scope[i][1]

\* C23: every counter of the collector, in the overall, come-out and point-on
\* scopes and in the per-shooter and per-seat scope of every seat, is
\* non-decreasing over every record_game_start, record_roll and
\* record_game_end call on one collector.
C23_CountersNeverDecrease ==
    [][collector # None =>
        LET before == view(heap, collector[1])
            after == view(heap', collector'[1])
        IN  /\ CountersLeq(before.overall, after.overall)
            /\ CountersLeq(before.come_out, after.come_out)
            /\ CountersLeq(before.point_on, after.point_on)
            /\ \A i \in Seats :
                  /\ CountersLeq(SeatCounters(before.per_shooter, i),
                                 SeatCounters(after.per_shooter, i))
                  /\ CountersLeq(SeatCounters(before.per_player, i),
                                 SeatCounters(after.per_player, i))]_vars

\* Game.step of a Game whose collector is a NullStatsCollector, from the game
\* state given and with the dice giving roll: the transition, the engine
\* state, the roll count, the shooter and the stop reason it leaves, and
\* whether it raised (only _next_shooter_index can)
null_stats_step(ph, pt, cp, rc, shooter, ps, gc, roll) ==
    LET rr == ApplyRollResult(ph, pt, roll)
        points == CompletedPointsAfter(cp, rr.completed_point)
        next == IF should_rotate_shooter(rr) THEN next_shooter_index(ps, shooter)
                ELSE Some(shooter)
    IN  [roll_result |-> rr,
         phase |-> rr.phase_after,
         point |-> rr.point_after,
         completed_points |-> points,
         roll_count |-> rc + 1,
         raised |-> next = None,
         shooter_index |-> IF next = None THEN shooter ELSE next[1],
         stop_reason |-> IF next = None THEN None
                         ELSE check_stop(gc, points, rc + 1, ps)]

\* C24: the stats collector has no influence on the game: every step of a
\* Game with a TableStatsCollector produces the transition, engine state, roll
\* count, shooter index, stop reason and failure that the step of a Game with
\* a NullStatsCollector produces from the same state and roll, the first
\* shooter is the one chosen without a collector, and record_roll never
\* raises for the shooter index the game gives it.
C24_CollectorHasNoInfluence ==
    [][/\ gpc = "new" /\ gpc' # "failed" =>
            Some(shooter_index') = first_shooter_index(player_states)
       /\ gpc = "step" =>
            LET n == null_stats_step(phase, point, completed_points, roll_count,
                                     shooter_index, player_states, config,
                                     result'[1].roll)
            IN  /\ ~record_roll_raises(player_states, shooter_index)
                /\ result' = Some(n.roll_result)
                /\ phase' = n.phase
                /\ point' = n.point
                /\ completed_points' = n.completed_points
                /\ roll_count' = n.roll_count
                /\ shooter_index' = n.shooter_index
                /\ stop_reason' = n.stop_reason
                /\ (gpc' = "raised") = n.raised
                /\ player_states' = player_states]_vars

\* rolls have been recorded for two different shooters and the game has
\* stopped with a reason
C24_Witness ==
    /\ gpc = "done"
    /\ stop_reason # None
    /\ stats.end_reason = stop_reason
    /\ SeatRolls(stats.per_shooter, 0) >= 1
    /\ SeatRolls(stats.per_shooter, 1) >= 1

\* the last frame delivered
LastFrame(fs) == fs[Len(fs)]

\* C25: with a frame callback, Simulation.run delivers "initial" exactly once
\* and before any roll, then for every roll the stages after_bets, after_roll
\* and after_payouts in that order; a roll's bets are all placed before the
\* roll is generated, and bets are resolved and bankrolls credited only after
\* the after_roll frame and with the transition of that same roll.
C25_FrameStagesInOrder ==
    [][spc # "off" =>
        /\ frames' # <<>> =>
              /\ frames'[1] = [stage |-> "initial", roll_index |-> 0, event |-> FALSE]
              /\ \A k \in 2..Len(frames') :
                    /\ frames'[k].stage =
                          <<"after_bets", "after_roll", "after_payouts">>[((k - 2) % 3) + 1]
                    /\ frames'[k].roll_index = ((k - 2) \div 3) + 1
        /\ frames' = <<>> => result' = None /\ bets' = <<>>
        \* bets are placed
        /\ (\/ Len(bets') > Len(bets)
            \/ \E k \in 1..Len(players) : players'[k].bankroll < players[k].bankroll)
           => /\ LastFrame(frames).stage \in {"initial", "after_payouts"}
              /\ LastFrame(frames').stage = "after_bets"
              /\ UNCHANGED engineVars
        \* the roll is generated
        /\ engineVars' # engineVars
           => /\ LastFrame(frames).stage = "after_bets"
              /\ LastFrame(frames).roll_index = roll_index
              /\ LastFrame(frames') =
                    [stage |-> "after_roll", roll_index |-> roll_index, event |-> TRUE]
              /\ event'[1].point_cycle = result'[1]
              /\ bets' = bets /\ players' = players
        \* bets are resolved, bankrolls credited
        /\ (\/ Len(bets') < Len(bets)
            \/ resolved_bets' # resolved_bets
            \/ \E k \in 1..Len(players) : players'[k].bankroll > players[k].bankroll)
           => /\ LastFrame(frames).stage = "after_roll"
              /\ LastFrame(frames).roll_index = roll_index
              /\ event[1].roll_index = roll_index
              /\ event[1].point_cycle = result[1]
              /\ resolved_bets' = table_resolved(bets, event[1].point_cycle)
              /\ LastFrame(frames').stage = "after_payouts"
              /\ UNCHANGED engineVars]_vars

\* two rolls have been played through, the second one paying a bet
C25_Witness ==
    /\ spc # "off"
    /\ Len(frames) = 7
    /\ LastFrame(frames).stage = "after_payouts"
    /\ \E k \in 1..Len(resolved_bets) : resolved_bets[k].payout > 0

(***************************************************************************)
(* run_until_complete for one Martingale player.                           *)
(***************************************************************************)
\* the player: base_bet 5, with and without a max_bet of 12
MartingaleInputs ==
    [balance : {15, 100}, max_win : {None}, can_shoot : {TRUE},
     strategy : {"martingale"}, base_bet : {5}, max_bet : {None, Some(12)}]

\* the arguments of run_until_complete: one Martingale player and a GameConfig
MartingaleInit ==
    /\ EngineInit
    /\ \E p \in MartingaleInputs :
          player_states = [i \in Seats |-> IF i = 0 THEN Some(p) ELSE None]
    /\ config \in ConfigInputs
    /\ roll_count = 0
    /\ shooter_index = 0
    /\ stop_reason = None
    /\ trackers = [i \in Seats |-> None]
    /\ stats = NewStats
    /\ gpc = "new"
    /\ SimOff
    /\ SideOff

SpecMartingale == MartingaleInit /\ [][GameNext]_vars

\* the least of a non-empty set of numbers is SetMin; the Martingale wager of
\* the claim after k losses
MartingaleWager(base, max_bet, bankroll, k) ==
    SetMin({base * 2 ^ k, bankroll} \cup (IF max_bet = None THEN {} ELSE {max_bet[1]}))

\* C26: the Martingale player's consecutive-loss count goes up by one when
\* the player's pass-line bet loses, to 0 when it wins and is otherwise left
\* alone, and with the count at k the wager placed is
\* min(base_bet * 2^k, max_bet, bankroll): base_bet again after a win.
C26_MartingaleWager ==
    [][/\ (gpc = "settle" /\ trackers[0][1].active_bet > 0) =>
            LET outcome == result[1].pass_line_outcome
                k == trackers[0][1].state.consecutive_losses
            IN  trackers'[0][1].state.consecutive_losses =
                    IF outcome = WIN THEN 0
                    ELSE IF outcome = LOSS THEN k + 1
                    ELSE k
       /\ (gpc = "place" /\ trackers'[0] # trackers[0]) =>
            LET st == trackers[0][1].state
            IN  trackers'[0][1].active_bet =
                    MartingaleWager(st.base_bet, st.max_bet, st.bankroll,
                                    st.consecutive_losses)]_vars

(***************************************************************************)
(* Strategy.decide called on its own, with a game_state and a player's     *)
(* bankroll.                                                               *)
(***************************************************************************)
MaxBankroll == 100

DecideInputs ==
    [phase : {COME_OUT, POINT_ON}, has_pass_line_bet : BOOLEAN,
     has_pass_line_odds : BOOLEAN, has_place_6 : BOOLEAN, has_place_8 : BOOLEAN,
     bankroll : 0..MaxBankroll]

DecideCallsInit ==
    /\ EngineInit
    /\ GameOff
    /\ SimOff
    /\ twin = None
    /\ call \in {Some(c) : c \in DecideInputs}
    /\ ret = None
    /\ heap = <<>>
    /\ collector = None
    /\ snap = None
    /\ calls = 0

\* PassLineWithOddsStrategy().decide(game_state, player_state)
passline_with_odds_decide_call ==
    /\ call # None
    /\ ret = None
    /\ ret' = Some([by |-> STRATEGY_PASSLINE_WITH_ODDS,
                    decisions |-> passline_with_odds_decide(
                        call[1].phase, call[1].has_pass_line_bet,
                        call[1].has_pass_line_odds, call[1].bankroll)])
    /\ UNCHANGED <<engineVars, gameVars, simVars, twin, call, statsVars>>

\* PlaceSixEightStrategy().decide(game_state, player_state)
place_six_eight_decide_call ==
    /\ call # None
    /\ ret = None
    /\ ret' = Some([by |-> STRATEGY_PLACE_6_8,
                    decisions |-> place_six_eight_decide(
                        call[1].phase, call[1].has_place_6, call[1].has_place_8,
                        call[1].bankroll)])
    /\ UNCHANGED <<engineVars, gameVars, simVars, twin, call, statsVars>>

DecideCallsNext == passline_with_odds_decide_call \/ place_six_eight_decide_call

SpecDecideCalls == DecideCallsInit /\ [][DecideCallsNext]_vars

\* the decisions of a given bet type among those returned
DecisionsOf(ds, bet_type) == {k \in 1..Len(ds) : ds[k].bet_type = bet_type}

\* what both statements of C27 share: a pass-line decision is of flat_unit
\* and is returned only on come-out with no pass-line bet and the bankroll
\* covering it; no odds decision on come-out; at most one decision per call
OddsDecideCommon(c, ds) ==
    /\ \A k \in DecisionsOf(ds, BET_TYPE_PASS_LINE) :
          /\ ds[k].amount = OddsFlatUnit
          /\ c.phase = COME_OUT
          /\ ~c.has_pass_line_bet
          /\ c.bankroll >= OddsFlatUnit
    /\ c.phase = COME_OUT => DecisionsOf(ds, BET_TYPE_PASS_LINE_ODDS) = {}
    /\ Len(ds) <= 1

\* C27 as stated: ... and once a point is on and no odds bet exists yet, decide
\* returns one odds decision of flat_unit * odds_multiple if the bankroll
\* covers it.
C27_OddsWhenPointOn ==
    (ret # None /\ ret[1].by = STRATEGY_PASSLINE_WITH_ODDS) =>
        /\ OddsDecideCommon(call[1], ret[1].decisions)
        /\ (/\ call[1].phase = POINT_ON
            /\ ~call[1].has_pass_line_odds
            /\ call[1].bankroll >= OddsFlatUnit * OddsMultiple)
           => ret[1].decisions =
                <<BetDecision(BET_TYPE_PASS_LINE_ODDS, OddsFlatUnit * OddsMultiple)>>

\* C27, amended: ... and decide returns one odds decision of
\* flat_unit * odds_multiple exactly when a point is on, the player has a
\* pass-line bet and no odds bet yet, and the bankroll covers it.
C27_OddsWhenPointOnBehindPassLine ==
    (ret # None /\ ret[1].by = STRATEGY_PASSLINE_WITH_ODDS) =>
        /\ OddsDecideCommon(call[1], ret[1].decisions)
        /\ IF /\ call[1].phase = POINT_ON
              /\ call[1].has_pass_line_bet
              /\ ~call[1].has_pass_line_odds
              /\ call[1].bankroll >= OddsFlatUnit * OddsMultiple
           THEN ret[1].decisions =
                  <<BetDecision(BET_TYPE_PASS_LINE_ODDS, OddsFlatUnit * OddsMultiple)>>
           ELSE DecisionsOf(ret[1].decisions, BET_TYPE_PASS_LINE_ODDS) = {}

\* decide has returned the odds decision
C27_Witness ==
    /\ ret # None
    /\ ret[1].by = STRATEGY_PASSLINE_WITH_ODDS
    /\ call[1].phase = POINT_ON
    /\ ret[1].decisions =
          <<BetDecision(BET_TYPE_PASS_LINE_ODDS, OddsFlatUnit * OddsMultiple)>>

\* the sum of the amounts of the decisions
DecisionsTotal(ds) ==
    LET F[k \in 0..Len(ds)] == IF k = 0 THEN 0 ELSE F[k - 1] + ds[k].amount
    IN  F[Len(ds)]

\* C28: PlaceSixEightStrategy.decide returns nothing on come-out; with a point
\* on it returns a one-unit decision on 6 when 6 is not covered and the
\* bankroll is at least one unit, then a one-unit decision on 8 when 8 is not
\* covered and what remains of the bankroll after the first decision is at
\* least one unit; a bankroll covering one unit only yields exactly one
\* decision, and the decisions never total more than the bankroll.
C28_PlaceSixEightWithinBankroll ==
    (ret # None /\ ret[1].by = STRATEGY_PLACE_6_8) =>
        LET c == call[1]
            ds == ret[1].decisions
            six == c.phase = POINT_ON /\ ~c.has_place_6 /\ c.bankroll >= PlaceUnit
            remaining == IF six THEN c.bankroll - PlaceUnit ELSE c.bankroll
            eight == c.phase = POINT_ON /\ ~c.has_place_8 /\ remaining >= PlaceUnit
        IN  /\ c.phase = COME_OUT => ds = <<>>
            /\ \A k \in 1..Len(ds) :
                  /\ ds[k].bet_type \in {BET_TYPE_PLACE_6, BET_TYPE_PLACE_8}
                  /\ ds[k].amount = PlaceUnit
            /\ Cardinality(DecisionsOf(ds, BET_TYPE_PLACE_6)) = (IF six THEN 1 ELSE 0)
            /\ Cardinality(DecisionsOf(ds, BET_TYPE_PLACE_8)) = (IF eight THEN 1 ELSE 0)
            /\ (/\ c.phase = POINT_ON
                /\ ~c.has_place_6 /\ ~c.has_place_8
                /\ PlaceUnit <= c.bankroll /\ c.bankroll < 2 * PlaceUnit)
               => Len(ds) = 1
            /\ DecisionsTotal(ds) <= c.bankroll

\* neither number is covered and the bankroll covers one unit only: one
\* decision is returned
C28_Witness ==
    /\ ret # None
    /\ ret[1].by = STRATEGY_PLACE_6_8
    /\ call[1].phase = POINT_ON
    /\ ~call[1].has_place_6 /\ ~call[1].has_place_8
    /\ call[1].bankroll = PlaceUnit + 5
    /\ Len(ret[1].decisions) = 1

(***************************************************************************)
(* models.Table on its own: Table.empty() and the tables seat_player       *)
(* builds from it.  Every Table object made so far is kept, so that a call *)
(* on one of them can be seen to leave all of them as they were.           *)
(***************************************************************************)
MaxTables == 4

\* the names of the players seated
PlayerNames == {"A", "B"}

\* seat indices given to seat_player, in and out of range
SeatIndexInputs == {0 - 1, 0, 1, 8, 9}

\* Table.empty()
Table_empty == [i \in Seats |-> None]

\* Table.__post_init__ raises unless there are 9 seats
Table_raises(seats) == Cardinality(DOMAIN seats) # 9

seat_player_raises_out_of_range_only(seats, seat_index) ==
    ~(0 <= seat_index /\ seat_index < 9)

\* Table.seat_player raises IndexError for an index outside 0..8 and
\* ValueError for a seat that is taken
seat_player_raises(seats, seat_index) ==
    IF ~(0 <= seat_index /\ seat_index < 9) THEN TRUE
    ELSE seats[seat_index] # None

\* the seats of the Table that seat_player returns
seat_player(seats, seat_index, player) ==
    [seats EXCEPT ![seat_index] = Some(player)]

TableCallsInit ==
    /\ EngineInit
    /\ GameOff
    /\ SimOff
    /\ twin = None
    /\ call = Some([tables |-> <<Table_empty>>])
    /\ ret = None
    /\ heap = <<>>
    /\ collector = None
    /\ snap = None
    /\ calls = 0

\* tables[k].seat_player(seat_index, Player(name, ...)) on one of the tables
\* made so far
seat_player_call ==
    /\ call # None
    /\ Len(call[1].tables) < MaxTables
    /\ \E k \in 1..Len(call[1].tables), seat_index \in SeatIndexInputs,
          name \in PlayerNames :
        LET self == call[1].tables[k]
            raised == \/ seat_player_raises(self, seat_index)
                      \/ Table_raises(seat_player(self, seat_index, name))
        IN  /\ call' = IF raised THEN call
                       ELSE Some([tables |-> Append(call[1].tables,
                                      seat_player(self, seat_index, name))])
            /\ ret' = Some([by |-> "seat_player", self |-> k,
                            seat_index |-> seat_index, player |-> name,
                            raised |-> raised])
    /\ UNCHANGED <<engineVars, gameVars, simVars, twin, statsVars>>

TableCallsNext == seat_player_call

SpecTableCalls == TableCallsInit /\ [][TableCallsNext]_vars

\* C29: every Table has exactly 9 seat slots; seat_player on an index outside
\* 0..8 or on a taken seat raises and makes no table; a successful
\* seat_player makes a new table that differs from the one it was called on
\* in that seat only, every table made before being left as it was, so no
\* sequence of seat_player calls overwrites or empties a taken seat.
C29_SeatPlayer ==
    [][call # None =>
        LET old == call[1].tables
            new == call'[1].tables
            r == ret'[1]
        IN  /\ \A j \in 1..Len(new) : DOMAIN new[j] = 0..8
            /\ \A j \in 1..Len(old) : new[j] = old[j]
            /\ r.raised <=> (\/ r.seat_index \notin 0..8
                             \/ old[r.self][r.seat_index] # None)
            /\ r.raised => new = old
            /\ ~r.raised =>
                  /\ Len(new) = Len(old) + 1
                  /\ new[Len(new)][r.seat_index] = Some(r.player)
                  /\ \A i \in Seats \ {r.seat_index} :
                        new[Len(new)][i] = old[r.self][i]
                  /\ \A i \in Seats :
                        old[r.self][i] # None => new[Len(new)][i] = old[r.self][i]]_vars

\* a player has been seated, and a later seat_player on that taken seat has
\* raised
C29_Witness ==
    /\ call # None
    /\ Len(call[1].tables) >= 3
    /\ ret # None
    /\ ret[1].raised
    /\ ret[1].seat_index \in 0..8
    /\ call[1].tables[ret[1].self][ret[1].seat_index] # None

\* C30: in every table made by Table.empty followed by seat_player calls, no
\* two taken seats hold players of the same name.
C30_NamesUniqueAtTable ==
    call # None =>
        \A j \in 1..Len(call[1].tables) :
            \A a, b \in Seats :
                LET seats == call[1].tables[j]
                IN  (a # b /\ seats[a] # None /\ seats[b] # None)
                        => seats[a] # seats[b]

(***************************************************************************)
(* The run loops under fair scheduling: a loop that can take its next      *)
(* step takes it.  The dice are capped at MaxRolls rolls, so what is       *)
(* checked is that every run ends with a stop reason or uses up the rolls. *)
(***************************************************************************)
\* run_until_complete for one player and a GameConfig with target_points, or
\* Simulation.run for one player
FairRunsInit ==
    /\ CrapsInit
    /\ gpc # "off" =>
          /\ player_states[1] = None
          /\ config.target_points # None
    /\ spc # "off" => Len(players) = 1

SpecCrapsFair == FairRunsInit /\ [][CrapsNext]_vars /\ WF_vars(CrapsNext)

\* the run has returned with a stop reason, or never started because the
\* Game could not be constructed
RunReturned ==
    \/ gpc = "done" /\ stop_reason # None
    \/ gpc = "failed"
    \/ spc = "done" /\ sim_stop_reason # None

\* the rolls the dice are given here are used up
RollsUsedUp ==
    \/ gpc # "off" /\ roll_count = MaxRolls
    \/ spc # "off" /\ roll_index = MaxRolls

\* C31: a run with a target number of completed points configured
\* eventually produces a stop reason (within the rolls the dice have), and
\* the loop returns at the first step whose stop reason is not None.
C31_RunProducesStopReason ==
    /\ <>(RunReturned \/ RollsUsedUp)
    /\ [][/\ (gpc = "settle" /\ stop_reason # None) => gpc' \in {"done", "raised"}
          /\ (spc = "payouts" /\ sim_stop_reason' # None) => spc' = "done"]_vars

\* the number of frames of a stage delivered so far: run generates one roll
\* per after_roll frame and appends one event per after_payouts frame
FramesOf(stage) == Cardinality({k \in 1..Len(frames) : frames[k].stage = stage})

\* C32: Simulation.run(max_rolls=N) never generates more than N rolls and
\* returns at most N events; its stop reason is max_rolls only when exactly N
\* rolls were made and neither the points target nor the bankroll limits
\* stop the run after roll N; the i-th event has roll_index i.
C32_MaxRollsGuard ==
    spc # "off" =>
        /\ cfg.max_rolls # None =>
              /\ roll_index <= cfg.max_rolls[1]
              /\ FramesOf("after_roll") <= cfg.max_rolls[1]
              /\ FramesOf("after_payouts") <= cfg.max_rolls[1]
        /\ sim_stop_reason = Some(STOP_REASON_MAX_ROLLS) =>
              /\ cfg.max_rolls # None
              /\ FramesOf("after_roll") = cfg.max_rolls[1]
              /\ FramesOf("after_payouts") = cfg.max_rolls[1]
              /\ should_stop(completed_points, players) = None
        /\ (spc \in {"bets", "done"} /\ event # None) =>
              event[1].roll_index = FramesOf("after_payouts")

\* a run with max_rolls = 2 has stopped for max_rolls after its second roll
C32_Witness ==
    /\ spc = "done"
    /\ cfg.max_rolls = Some(2)
    /\ sim_stop_reason = Some(STOP_REASON_MAX_ROLLS)
    /\ event # None
    /\ event[1].roll_index = 2

(***************************************************************************)
(* PlayerState.credit and PlayerState.debit called on their own.           *)
(***************************************************************************)
\* a PlayerState receives at most this many calls
MaxPlayerCalls == 3

\* the amounts a credit or a debit is called with
AmountInputs == {-5, 0, 5, 25, 40}

credit_raises_never(player, amount) == FALSE

\* PlayerState.credit raises ValueError for these arguments
credit_raises(player, amount) == amount < 0

\* a PlayerState made by create_player_states, no call made yet
PlayerCallsInit ==
    /\ EngineInit
    /\ GameOff
    /\ SimOff
    /\ twin = None
    /\ call \in {Some([player |-> create_player_state(pcfg), made |-> 0]) :
                    pcfg \in PlayerConfigs}
    /\ ret = None
    /\ heap = <<>>
    /\ collector = None
    /\ snap = None
    /\ calls = 0

\* player.credit(amount)
credit_call ==
    /\ call # None
    /\ call[1].made < MaxPlayerCalls
    /\ \E amount \in AmountInputs :
        LET self == call[1].player
            raised == credit_raises(self, amount)
        IN  /\ call' = Some([player |-> IF raised THEN self ELSE credit(self, amount),
                             made |-> call[1].made + 1])
            /\ ret' = Some([by |-> "credit", amount |-> amount, raised |-> raised])
    /\ UNCHANGED <<engineVars, gameVars, simVars, twin, statsVars>>

\* player.debit(amount)
debit_call ==
    /\ call # None
    /\ call[1].made < MaxPlayerCalls
    /\ \E amount \in AmountInputs :
        LET self == call[1].player
            raised == debit_raises(self, amount)
        IN  /\ call' = Some([player |-> IF raised THEN self ELSE debit(self, amount),
                             made |-> call[1].made + 1])
            /\ ret' = Some([by |-> "debit", amount |-> amount, raised |-> raised])
    /\ UNCHANGED <<engineVars, gameVars, simVars, twin, statsVars>>

\* player.is_current_shooter = flag, as Simulation.__init__ and
\* _advance_shooter assign it between the calls
set_is_current_shooter ==
    /\ call # None
    /\ call[1].made < MaxPlayerCalls
    /\ \E flag \in BOOLEAN :
        /\ flag # call[1].player.is_current_shooter
        /\ call' = Some([player |-> [call[1].player EXCEPT !.is_current_shooter = flag],
                         made |-> call[1].made])
        /\ ret' = Some([by |-> "is_current_shooter", amount |-> 0, raised |-> FALSE])
    /\ UNCHANGED <<engineVars, gameVars, simVars, twin, statsVars>>

PlayerCallsNext == credit_call \/ debit_call \/ set_is_current_shooter

SpecPlayerCalls == PlayerCallsInit /\ [][PlayerCallsNext]_vars

\* C33: after any sequence of credit and debit calls on a PlayerState,
\* successful or raising, total_profit equals bankroll minus
\* starting_bankroll; a credit or debit with a negative amount, and a debit
\* of more than the bankroll, raises and leaves bankroll, total_profit and
\* shooter_profit as they were; shooter_profit changes only in a call made
\* while is_current_shooter is true.
C33_CreditDebitLedger ==
    /\ [](call # None =>
            call[1].player.total_profit =
                call[1].player.bankroll - call[1].player.config.starting_bankroll)
    /\ [][call # None /\ call'[1].made # call[1].made =>
            LET old == call[1].player
                new == call'[1].player
                r == ret'[1]
            IN  /\ (\/ r.amount < 0
                    \/ r.by = "debit" /\ r.amount > old.bankroll)
                   => /\ r.raised
                      /\ new.bankroll = old.bankroll
                      /\ new.total_profit = old.total_profit
                      /\ new.shooter_profit = old.shooter_profit
                /\ new.shooter_profit # old.shooter_profit => old.is_current_shooter
                /\ ~r.raised =>
                      new.bankroll = old.bankroll +
                          (IF r.by = "credit" THEN r.amount ELSE 0 - r.amount)]_vars

\* a debit of more than the bankroll raised on a shooter whose earlier credit
\* and debit had moved shooter_profit
C33_Witness ==
    /\ call # None
    /\ ret # None
    /\ "player" \in DOMAIN call[1]
    /\ ret[1].by = "debit"
    /\ ret[1].raised
    /\ ret[1].amount > call[1].player.bankroll
    /\ call[1].player.is_current_shooter
    /\ call[1].player.shooter_profit # 0
    /\ call[1].player.total_profit # 0

(***************************************************************************)
(* run_until_complete for one shooter seated with two players who do not   *)
(* shoot.                                                                  *)
(***************************************************************************)
\* seat 0 can shoot; seats 1 and 2 cannot
ShooterInputs ==
    [balance : {1, 2}, max_win : {None}, can_shoot : {TRUE},
     strategy : {"flat"}, base_bet : {1}, max_bet : {None}]

NonShooterInputs ==
    [balance : {2, 100}, max_win : {None}, can_shoot : {FALSE},
     strategy : {"flat"}, base_bet : {1}, max_bet : {None}]

\* the arguments of run_until_complete: the three players and a GameConfig
ThreeSeatsInit ==
    /\ EngineInit
    /\ \E a \in ShooterInputs : \E b \in NonShooterInputs, c \in NonShooterInputs :
          player_states =
              [i \in Seats |-> IF i = 0 THEN Some(a)
                               ELSE IF i = 1 THEN Some(b)
                               ELSE IF i = 2 THEN Some(c) ELSE None]
    /\ config \in ConfigInputs
    /\ roll_count = 0
    /\ shooter_index = 0
    /\ stop_reason = None
    /\ trackers = [i \in Seats |-> None]
    /\ stats = NewStats
    /\ gpc = "new"
    /\ SimOff
    /\ SideOff

SpecThreeSeats == ThreeSeatsInit /\ [][GameNext]_vars

\* C34: Game.step never raises for lack of a shooter: the game still running
\* (the stop check of the step before returned None), the step returns, and
\* the shooter_index it returns is a taken seat whose player can shoot, also
\* after the only player able to shoot has gone broke while two others
\* remain eligible.
C34_StepFindsShooter ==
    [][gpc = "step" /\ stop_reason = None =>
          /\ gpc' = "settle"
          /\ player_states[shooter_index'] # None
          /\ player_states[shooter_index'][1].can_shoot]_vars

\* C35: in the place/step/settle loop of run_until_complete no roll is
\* generated while every seated player's bankroll is zero: the step whose roll
\* makes the last funded player lose the whole bankroll is the step that
\* reports no-bankroll-remaining, so the loop ends with that settlement.
C35_NoRollWhenAllBroke ==
    [][/\ roll_count' # roll_count => players_with_bankroll(player_states) # {}
       /\ (/\ gpc = "settle"
           /\ gpc' # "raised"
           /\ players_with_bankroll(player_states) # {}
           /\ players_with_bankroll(player_states') = {})
          => /\ stop_reason = Some(NO_BANKROLL_REMAINING)
             /\ gpc' = "done"]_vars

\* C36: Simulation.run never returns the bankroll-limits stop reason while
\* the ledger still holds an unresolved bet: a player whose last chips are on
\* a still-active pass-line bet does not count as at the minimum bankroll
\* limit for stopping.
C36_NoBankrollStopWithActiveBets ==
    (spc = "done" /\ sim_stop_reason = Some(STOP_REASON_BANKROLL)) => bets = <<>>

\* the stakes of the player's bets in a ledger (player_index is 0-based)
ActiveStakes(bs, player_index) ==
    LET F[k \in 0..Len(bs)] ==
            IF k = 0 THEN 0
            ELSE F[k - 1] + (IF bs[k].player_index = player_index
                             THEN bs[k].base_amount ELSE 0)
    IN  F[Len(bs)]

\* the profits of the player's bets among the resolved ones
ResolvedProfits(rs, player_index) ==
    LET F[k \in 0..Len(rs)] ==
            IF k = 0 THEN 0
            ELSE F[k - 1] + (IF rs[k].bet.player_index = player_index
                             THEN rs[k].profit ELSE 0)
    IN  F[Len(rs)]

\* C37: money is conserved in Simulation.run: for every player, bankroll plus
\* the stakes of the player's active bets starts at starting_bankroll, is left
\* alone by the placing of bets, and changes with every roll by the profits
\* of the player's bets resolved on that roll; so after every roll it equals
\* starting_bankroll plus the profits of the player's resolved bets so far.
C37_MoneyConserved ==
    /\ [](spc \in {"new", "run"} =>
            /\ bets = <<>>
            /\ \A k \in 1..Len(players) :
                  players[k].bankroll = players[k].config.starting_bankroll)
    /\ [][spc # "off" =>
            \A k \in 1..Len(players) :
                players'[k].bankroll + ActiveStakes(bets', k - 1) =
                    players[k].bankroll + ActiveStakes(bets, k - 1) +
                    (IF spc = "payouts" THEN ResolvedProfits(resolved_bets', k - 1)
                     ELSE 0)]_vars

\* two rolls made: the first player's bet of the first roll won, the bet of
\* the second roll is still active after a roll without decision
C37_Witness ==
    /\ spc \in {"bets", "done"}
    /\ roll_index = 2
    /\ Len(players) = 2
    /\ ActiveStakes(bets, 0) > 0
    /\ players[1].bankroll + ActiveStakes(bets, 0) >
           players[1].config.starting_bankroll
    /\ resolved_bets = <<>>

\* the points made over all point numbers, of a StatsCounters
MadeTotal(c) ==
    c.point_counts.made[4] + c.point_counts.made[5] + c.point_counts.made[6] +
    c.point_counts.made[8] + c.point_counts.made[9] + c.point_counts.made[10]

\* C38: when a game ends, the points_made frozen by record_game_end equals
\* the sum over p of overall made[p], and the frozen roll_count equals
\* overall rolls.
C38_FrozenTotals ==
    (gpc # "off" /\ stats.end_reason # None) =>
        /\ stats.points_made = MadeTotal(stats.overall)
        /\ stats.roll_count = stats.overall.rolls

\* C39: every roll is attributed to the player who threw it: the
\* shooter_index and shooter_roll_index of the SimulationEvent recorded for a
\* roll are those of the shooter when the roll was generated, also for the
\* roll that makes the shooter rotate, and the shooter_roll_index is at
\* least 1.
C39_RollAttributedToThrower ==
    [][spc = "payouts" =>
          /\ event' # None
          /\ event'[1].roll_index = roll_index
          /\ event'[1].shooter_index = current_shooter_index
          /\ event'[1].shooter_roll_index = shooter_roll_index
          /\ event'[1].shooter_roll_index >= 1]_vars

\* C40: in every state of a Simulation, after construction and after every
\* rotation, exactly one player has is_current_shooter true, that player is
\* players[current_shooter_index], and that player has can_be_shooter true,
\* for every configuration of can_be_shooter flags that construction accepts.
C40_OneCurrentShooter ==
    spc \in {"run", "bets", "roll", "payouts", "done"} =>
        /\ \A k \in 1..Len(players) :
              players[k].is_current_shooter <=> (k = current_shooter_index + 1)
        /\ players[current_shooter_index + 1].config.can_be_shooter

====
